---- MODULE Spec2Model ----
(***************************************************************************)
(* Face-mood-Analyzer: the matching pipeline, the batch scheduler, the     *)
(* emotion aggregator and the composition engine of                        *)
(* src/emotion_analyzer.py, with the request handlers of src/app.py that   *)
(* drive them.                                                             *)
(*                                                                         *)
(* Distances and thresholds are integers in hundredths (0.68 is 68).       *)
(* Durations are integers in eighths of a second, which binary floating    *)
(* point represents exactly, so int(d * 44100) is (d8 * 44100) \div 8.     *)
(***************************************************************************)
EXTENDS Integers, Sequences, FiniteSets, TLC

(***************************************************************************)
(* Bounds of the model.                                                    *)
(***************************************************************************)
MaxRefs == 3
MaxRequired == 3
MaxFaces == 2
MaxPhotos == 6
MaxAggPhotos == 3
MaxDuration8 == 250

(***************************************************************************)
(* Constants of the program.                                               *)
(***************************************************************************)
PoolSize == 4
BatchSize == 5
SampleRate == 44100
FloorSeconds == 30

(***************************************************************************)
(* Values the external verification backend can answer with.               *)
(***************************************************************************)
DistValues == {30, 68, 69, 120}
Thresholds == {40, 68, 150}
DistInf == 1000000

Min(a, b) == IF a <= b THEN a ELSE b
Max(a, b) == IF a >= b THEN a ELSE b

VARIABLES
    \* ---- _process_single_photo ----
    n_refs,            \* len(reference_images)
    threshold,         \* threshold argument
    required_matches,  \* required_matches argument
    mpc,               \* position inside _process_single_photo
    faces_left,        \* faces of the photo not iterated yet
    ref_i,             \* 1-based index of the next reference image
    match_count,
    best_distance,
    calls,             \* answers of DeepFace.verify for the current region
    region_decided,    \* line 202 has been evaluated for the current region
    region_verified,   \* value of the condition of line 202
    region_annotated,  \* the box and label were drawn for the current region
    found_faces,
    photo_ret,         \* return value: "unset", "none", "marked"
    n_faces,           \* len(faces) of the photo
    decided_regions,   \* regions for which line 202 has been evaluated
    discarded_regions, \* regions skipped at line 174, empty after clipping
    verify_errors,     \* DeepFace.verify calls of the photo that raised
    confidence_score,  \* line 213, in percent; 0 while nothing is annotated
    \* ---- mark_reference_faces_in_photos and the executor ----
    s_nrefs,           \* len(reference_images) found in reference_dir
    n_photos,          \* len(photo_files)
    photo_files,       \* line 280: position in the listing -> rank of the name
    spc,               \* position inside mark_reference_faces_in_photos
    batch_i,           \* i of the batch loop (0-based first index)
    futures,           \* photos of the current batch, in submission order
    col_j,             \* 1-based index of the next future to collect
    task,              \* photo -> state of its task on the executor
    outcome,           \* photo -> how the collection loop settled it
    marked_files,      \* the list that is returned
    sleeps,            \* number of time.sleep(1) calls made
    \* ---- _analyze_emotions_from_photos ----
    a_pc,              \* position inside _analyze_emotions_from_photos
    a_total,           \* len(image_files)
    a_seen,            \* photos the loop has gone through
    emotion_counts,
    a_dominant,        \* the returned dominant emotion, "unset" before
    \* ---- _generate_simple_audio, _generate_emotion_based_music ----
    c_pc,              \* position inside the composition
    c_duration,        \* duration argument, in eighths of a second
    c_emotion,         \* emotion label handed to _generate_emotion_based_music
    c_min_duration,    \* min_duration, in eighths of a second
    c_samples,         \* samples, the length of t and of the waveform
    c_theme,           \* the selected entry of emotion_themes
    c_layer,           \* the layer function _compose_cinematic_piece calls
    \* ---- successive calls of _generate_simple_audio ----
    c_i,               \* the index of the pass a loop of the layer function is at
    c_audio,           \* the array audio: the waves added to it, in order
    fs_marked,         \* uploads/output/marked_photos: file name -> label
    fs_unread,         \* the names listed at line 509 and not yet read
    fs_counts,         \* emotion_counts of the call's classification
    c_first,           \* what the first finished composition was made of
    c_runs,            \* compositions finished so far
    \* ---- normalisation and quantisation of the waveform ----
    w_pc,              \* position between lines 534 and 540
    w_audio,           \* audio when line 534 is reached, in amplitude units
    w_max_val,         \* max_val of line 535, -1 before
    w_norm,            \* audio after line 537, numerators over w_den
    w_den,             \* denominator of the samples of w_norm
    w_int16,           \* audio after line 540
    \* ---- create_video_from_photos and /generate_video ----
    v_pc,              \* position inside the request
    v_n,               \* len(marked_files) of the request
    v_output,          \* output_video.mp4: absent, stale, partial, silent, with_audio
    v_temp,            \* temp_video.mp4: absent, empty, written
    v_frames,          \* frames written to the temporary video
    v_base_fail,       \* what failed while the silent video was produced
    v_mux_fail,        \* what failed while the soundtrack was added
    v_copy,            \* the fallback copy: unset, ok, failed
    v_cleanup,         \* lines 386-387 and 399-400: unset, or how they ended
    v_success,         \* return value of create_video_from_photos
    v_status,          \* HTTP status of the response, 0 before
    \* ---- concurrent /analyze requests ----
    h_pc,              \* request -> position inside analyze
    h_inputs,          \* request -> what its input folders hold
    h_todo,            \* request -> files its clear_data listed, not yet unlinked
    h_next,            \* request -> the next photo of its run
    h_marked,          \* request -> the photos in the list its run returns
    h_folder,          \* photo -> the request whose marked file is in
                       \* MARKED_PHOTOS_FOLDER, 0 when there is none
    \* ---- the reference loop over one region, in two orders ----
    o_pc,              \* which of the two loops have run
    o_answers,         \* reference image -> what DeepFace.verify does for it
    o_perm,            \* position -> reference image, the second order
    o_k,               \* required_matches
    o_listed,          \* outcome of the loop in the listed order
    o_permuted,        \* outcome of the loop in the second order
    \* ---- the clipping of a detected box ----
    k_pc,              \* position between lines 160 and 176
    k_box,             \* facial_area: x1, y1, x2, y2
    k_shape,           \* img.shape: width and height
    k_region,          \* x, y, w, h after line 173
    k_used,            \* the region passed line 175 and is cropped
    \* ---- the frames create_video_from_photos writes ----
    f_pc,              \* position inside the frame loop
    f_fps2,            \* fps argument, in halves of a frame per second
    f_n,               \* len(image_files)
    f_i,               \* 1-based index of the next image file
    f_written,         \* out.write calls made
    f_skipped,         \* image files cv2.imread could not read
    \* ---- _detect_faces and its cache ----
    d_pc,              \* worker thread -> where it is in lines 149-153
    d_call,            \* worker thread -> the path it works on, the faces it computed
    d_content,         \* photo path -> version of the file stored there
    d_cache,           \* entries of the lru_cache, least recently used first
    d_last,            \* the last call of _detect_faces and what it returned
    \* ---- a photo from its annotation to its vote ----
    p_pc,              \* position of the photo in the data flow
    p_annotated,       \* the labels drawn on the photo, one per verified region
    p_analysis,        \* what the aggregator's own analysis of the file met
    p_vote,            \* the key the aggregator counted the photo under
    \* ---- the notes a layer schedules ----
    m_pc,              \* position inside the layer function
    m_emotion,         \* the label the piece is composed for
    m_min8,            \* length of the waveform, in eighths of a second
    m_i,               \* index of the next chord or melody note
    m_events           \* the intervals added to the waveform so far

matchVars == <<n_refs, threshold, required_matches, mpc, faces_left, ref_i,
               match_count, best_distance, calls, region_decided,
               region_verified, region_annotated, found_faces, photo_ret,
               n_faces, decided_regions, discarded_regions, verify_errors,
               confidence_score>>

schedVars == <<s_nrefs, n_photos, photo_files, spc, batch_i, futures, col_j, task,
               outcome, marked_files, sleeps>>

aggVars == <<a_pc, a_total, a_seen, emotion_counts, a_dominant>>

compVars == <<c_pc, c_duration, c_emotion, c_min_duration, c_samples,
              c_theme, c_layer>>

audioVars == <<c_i, c_audio, fs_marked, fs_unread, fs_counts, c_first, c_runs>>

normVars == <<w_pc, w_audio, w_max_val, w_norm, w_den, w_int16>>

videoVars == <<v_pc, v_n, v_output, v_temp, v_frames, v_base_fail,
               v_mux_fail, v_copy, v_cleanup, v_success, v_status>>

serverVars == <<h_pc, h_inputs, h_todo, h_next, h_marked, h_folder>>

orderVars == <<o_pc, o_answers, o_perm, o_k, o_listed, o_permuted>>

clipVars == <<k_pc, k_box, k_shape, k_region, k_used>>

frameVars == <<f_pc, f_fps2, f_n, f_i, f_written, f_skipped>>

cacheVars == <<d_pc, d_call, d_content, d_cache, d_last>>

flowVars == <<p_pc, p_annotated, p_analysis, p_vote>>

noteVars == <<m_pc, m_emotion, m_min8, m_i, m_events>>

\* the parts modelled first and the parts modelled after them
earlyVars == <<matchVars, schedVars, aggVars, compVars, audioVars, normVars,
               videoVars, serverVars>>
lateVars == <<orderVars, clipVars, frameVars, cacheVars, flowVars, noteVars>>

vars == <<earlyVars, lateVars>>

notMatch == <<schedVars, aggVars, compVars, audioVars, normVars, videoVars,
              serverVars, lateVars>>
notSched == <<matchVars, aggVars, compVars, audioVars, normVars, videoVars,
              serverVars, lateVars>>
notAgg == <<matchVars, schedVars, compVars, audioVars, normVars, videoVars,
            serverVars, lateVars>>
notComp == <<matchVars, schedVars, aggVars, audioVars, normVars, videoVars,
             serverVars, lateVars>>
notAudio == <<matchVars, schedVars, aggVars, normVars, videoVars,
              serverVars, lateVars>>
notNorm == <<matchVars, schedVars, aggVars, compVars, audioVars, videoVars,
             serverVars, lateVars>>
notVideo == <<matchVars, schedVars, aggVars, compVars, audioVars, normVars,
              serverVars, lateVars>>
notOrder == <<earlyVars, clipVars, frameVars, cacheVars, flowVars, noteVars>>
notClip == <<earlyVars, orderVars, frameVars, cacheVars, flowVars, noteVars>>
notFrame == <<earlyVars, orderVars, clipVars, cacheVars, flowVars, noteVars>>
notCache == <<earlyVars, orderVars, clipVars, frameVars, flowVars, noteVars>>
notFlow == <<earlyVars, orderVars, clipVars, frameVars, cacheVars, noteVars>>
notNote == <<earlyVars, orderVars, clipVars, frameVars, cacheVars, flowVars>>
notServer == <<matchVars, schedVars, aggVars, compVars, audioVars, normVars,
               videoVars, lateVars>>

(***************************************************************************)
(* The emotion vocabulary and the theme table.                             *)
(***************************************************************************)

\* line 21: self.emotions
Emotions == <<"angry", "disgust", "fear", "happy", "sad", "surprise", "neutral">>

\* line 467: the keys of emotion_counts, in the order the dict is built
CountKeys == <<"happy", "sad", "angry", "fear", "surprise", "disgust", "neutral">>

Vocabulary == {CountKeys[i] : i \in DOMAIN CountKeys}

\* lines 559-630: emotion_themes; frequencies in hundredths of a hertz
EmotionThemes ==
    [e \in Vocabulary |->
       CASE e = "happy" ->
              [name |-> "Joyful Celebration",
               chord_progression |-> <<26163, 32963, 39200, 52325>>,
               melody_notes |-> <<52325, 58733, 65925, 69846, 78399>>,
               tempo |-> 120, style |-> "orchestral_upbeat",
               dynamics |-> "forte"]
         [] e = "sad" ->
              [name |-> "Melancholic Reflection",
               chord_progression |-> <<22000, 26163, 29366, 34923>>,
               melody_notes |-> <<44000, 49388, 52325, 58733, 65925>>,
               tempo |-> 60, style |-> "piano_ballad",
               dynamics |-> "piano"]
         [] e = "angry" ->
              [name |-> "Intense Confrontation",
               chord_progression |-> <<14683, 17461, 22000, 24694>>,
               melody_notes |-> <<29366, 32963, 36999, 41530, 46616>>,
               tempo |-> 140, style |-> "orchestral_dramatic",
               dynamics |-> "fortissimo"]
         [] e = "fear" ->
              [name |-> "Suspenseful Mystery",
               chord_progression |-> <<18499, 22000, 24694, 29366>>,
               melody_notes |-> <<36999, 41530, 46616, 52325, 58733>>,
               tempo |-> 80, style |-> "atmospheric_dark",
               dynamics |-> "pianissimo"]
         [] e = "surprise" ->
              [name |-> "Magical Discovery",
               chord_progression |-> <<32963, 41530, 49388, 65925>>,
               melody_notes |-> <<65925, 73999, 83061, 98777, 110873>>,
               tempo |-> 110, style |-> "orchestral_whimsical",
               dynamics |-> "mezzo_forte"]
         [] e = "disgust" ->
              [name |-> "Unsettling Dissonance",
               chord_progression |-> <<19600, 23308, 27718, 31113>>,
               melody_notes |-> <<39200, 46616, 55437, 62225, 69846>>,
               tempo |-> 90, style |-> "atonal_unsettling",
               dynamics |-> "mezzo_piano"]
         [] OTHER ->
              [name |-> "Peaceful Ambience",
               chord_progression |-> <<26163, 32963, 39200, 52325>>,
               melody_notes |-> <<52325, 58733, 65925, 69846, 78399>>,
               tempo |-> 80, style |-> "ambient_peaceful",
               dynamics |-> "mezzo_piano"]]

\* the value of theme before line 632 has run
NoTheme ==
    [name |-> "unset", chord_progression |-> <<>>, melody_notes |-> <<>>,
     tempo |-> 0, style |-> "unset", dynamics |-> "unset"]

(***************************************************************************)
(* The parts of the state that a specification leaves untouched.           *)
(***************************************************************************)

\* The state of _process_single_photo while it is not the part modelled.
IdleMatch ==
    /\ n_refs = 1
    /\ threshold = 68
    /\ required_matches = 2
    /\ mpc = "idle"
    /\ faces_left = 0
    /\ ref_i = 1
    /\ match_count = 0
    /\ best_distance = DistInf
    /\ calls = <<>>
    /\ region_decided = FALSE
    /\ region_verified = FALSE
    /\ region_annotated = FALSE
    /\ found_faces = FALSE
    /\ photo_ret = "unset"
    /\ n_faces = 0
    /\ decided_regions = 0
    /\ discarded_regions = 0
    /\ verify_errors = 0
    /\ confidence_score = 0

\* The state of the scheduler while no matching run is modelled.
IdleSched ==
    /\ s_nrefs = 0
    /\ n_photos = 0
    /\ photo_files = <<>>
    /\ spc = "idle"
    /\ batch_i = 0
    /\ futures = <<>>
    /\ col_j = 1
    /\ task = <<>>
    /\ outcome = <<>>
    /\ marked_files = <<>>
    /\ sleeps = 0

\* The state of the aggregator while it is not the part modelled.
IdleAgg ==
    /\ a_pc = "idle"
    /\ a_total = 0
    /\ a_seen = 0
    /\ emotion_counts = [e \in Vocabulary |-> 0]
    /\ a_dominant = "unset"

\* The state of the composition while it is not the part modelled.
IdleComp ==
    /\ c_pc = "idle"
    /\ c_duration = 0
    /\ c_emotion = "neutral"
    /\ c_min_duration = 0
    /\ c_samples = 0
    /\ c_theme = NoTheme
    /\ c_layer = "unset"

\* the value of c_first before a composition has finished
NoComposition ==
    [emotion |-> "unset", duration |-> -1, samples |-> 0, theme |-> NoTheme,
     layer |-> "unset", audio |-> <<>>]

\* The marked-photos folder and the history while no call is modelled.
IdleAudio ==
    /\ c_i = 0
    /\ c_audio = <<>>
    /\ fs_marked = <<>>
    /\ fs_unread = {}
    /\ fs_counts = [e \in Vocabulary |-> 0]
    /\ c_first = NoComposition
    /\ c_runs = 0

\* The state of the normalisation while it is not the part modelled.
IdleNorm ==
    /\ w_pc = "idle"
    /\ w_audio = <<>>
    /\ w_max_val = -1
    /\ w_norm = <<>>
    /\ w_den = 1
    /\ w_int16 = <<>>

\* The state of the video assembly while it is not the part modelled.
IdleVideo ==
    /\ v_pc = "idle"
    /\ v_n = 0
    /\ v_output = "absent"
    /\ v_temp = "absent"
    /\ v_frames = 0
    /\ v_base_fail = "none"
    /\ v_mux_fail = "none"
    /\ v_copy = "unset"
    /\ v_cleanup = "unset"
    /\ v_success = "unset"
    /\ v_status = 0

\* The state of the server while no concurrent requests are modelled.
IdleServer ==
    /\ h_pc = <<>>
    /\ h_inputs = <<>>
    /\ h_todo = <<>>
    /\ h_next = <<>>
    /\ h_marked = <<>>
    /\ h_folder = <<>>

\* the value of o_listed and o_permuted before the loop has run
NoOutcome == [match_count |-> 0, best_distance |-> DistInf, compared |-> 0]

\* The state of the two reference loops while they are not the part modelled.
IdleOrder ==
    /\ o_pc = "idle"
    /\ o_answers = <<>>
    /\ o_perm = <<>>
    /\ o_k = 2
    /\ o_listed = NoOutcome
    /\ o_permuted = NoOutcome

\* The state of the clipping while it is not the part modelled.
IdleClip ==
    /\ k_pc = "idle"
    /\ k_box = [x1 |-> 0, y1 |-> 0, x2 |-> 0, y2 |-> 0]
    /\ k_shape = [width |-> 0, height |-> 0]
    /\ k_region = [x |-> 0, y |-> 0, w |-> 0, h |-> 0]
    /\ k_used = FALSE

\* The state of the frame loop while it is not the part modelled.
IdleFrame ==
    /\ f_pc = "idle"
    /\ f_fps2 = 2
    /\ f_n = 0
    /\ f_i = 1
    /\ f_written = 0
    /\ f_skipped = 0

\* the value of d_last before _detect_faces has been called
NoCall == [path |-> 0, content |-> 0, faces |-> 0, hit |-> FALSE]

\* The state of the face cache while it is not the part modelled.
IdleCache ==
    /\ d_pc = <<>>
    /\ d_call = <<>>
    /\ d_content = <<>>
    /\ d_cache = <<>>
    /\ d_last = NoCall

\* The state of the data flow of one photo while it is not the part modelled.
IdleFlow ==
    /\ p_pc = "idle"
    /\ p_annotated = <<>>
    /\ p_analysis = [kind |-> "unreadable", label |-> "neutral"]
    /\ p_vote = "none"

\* The state of the note schedule while it is not the part modelled.
IdleNote ==
    /\ m_pc = "idle"
    /\ m_emotion = "neutral"
    /\ m_min8 = 0
    /\ m_i = 0
    /\ m_events = {}

\* The parts modelled after the first eight, at rest.
IdleLate ==
    IdleOrder /\ IdleClip /\ IdleFrame /\ IdleCache /\ IdleFlow /\ IdleNote

\* The parts modelled first, at rest.
IdleEarly ==
    IdleMatch /\ IdleSched /\ IdleAgg /\ IdleComp /\ IdleAudio /\ IdleNorm
    /\ IdleVideo /\ IdleServer

\* The parts added to the four above, at rest.
IdleRest == IdleAudio /\ IdleNorm /\ IdleVideo /\ IdleServer /\ IdleLate

(***************************************************************************)
(* _process_single_photo: one photo against the reference images.          *)
(***************************************************************************)

\* What one DeepFace.verify call can do: raise, or return verified/distance.
VerifyAnswers ==
    [raised : {TRUE}, verified : {FALSE}, distance : {0}]
    \cup [raised : {FALSE}, verified : BOOLEAN, distance : DistValues]

\* line 192: the pair counts as a match
Vote_Mut(result, thr) == result.distance <= thr
Vote(result, thr) == result.verified /\ result.distance <= thr

\* line 196 as it would be if the loop never stopped early
ShortCircuit_Mut(mc, k) == FALSE
\* line 196: the short-circuit of the reference loop
ShortCircuit(mc, k) == mc >= k

\* line 202: the region is treated as verified
RegionVerified_Mut(mc, k, n) == mc >= k
RegionVerified(mc, k, n) == mc >= Min(k, n)

MaxSide == 2

\* the corners a detector reports, inside and outside of the image
Corners == (-1)..(MaxSide + 1)

\* lines 162-173: x, y, w, h from facial_area and img.shape
ClipBox(box, shape) ==
    LET x0 == box.x1
        y0 == box.y1
        w0 == box.x2 - x0
        h0 == box.y2 - y0
        x == Max(0, x0)
        y == Max(0, y0)
    IN  [x |-> x, y |-> y,
         w |-> Min(w0, shape.width - x),
         h |-> Min(h0, shape.height - y)]

\* lines 173-174: the region is skipped
Discarded(r) == r.w <= 0 \/ r.h <= 0

\* the boxes a detector reports and the sizes of the image they are in
FaceBoxes ==
    {b \in [x1 : Corners, y1 : Corners, x2 : Corners, y2 : Corners] :
        b.x1 < b.x2 /\ b.y1 < b.y2}
ImageShapes == [width : 1..MaxSide, height : 1..MaxSide]

\* line 173 over every detected box and image: whether the region is empty
ClipOutcomes ==
    {Discarded(ClipBox(box, shape)) : box \in FaceBoxes, shape \in ImageShapes}

InitMatch ==
    /\ n_refs \in 1..MaxRefs
    /\ threshold \in Thresholds
    /\ required_matches \in 1..MaxRequired
    /\ mpc = "face_loop"
    /\ n_faces \in 0..MaxFaces
    /\ faces_left = n_faces
    /\ ref_i = 1
    /\ match_count = 0
    /\ best_distance = DistInf
    /\ calls = <<>>
    /\ region_decided = FALSE
    /\ region_verified = FALSE
    /\ region_annotated = FALSE
    /\ found_faces = FALSE
    /\ photo_ret = "unset"
    /\ decided_regions = 0
    /\ discarded_regions = 0
    /\ verify_errors = 0
    /\ confidence_score = 0

\* lines 160-180: the next face of the photo; its box is clipped to the
\* image and an empty region is skipped (lines 173-174), else the counters
\* are reset for the reference loop
NextFace ==
    /\ mpc = "face_loop"
    /\ faces_left > 0
    /\ faces_left' = faces_left - 1
    /\ \E discarded \in ClipOutcomes :
          IF discarded
          THEN /\ discarded_regions' = discarded_regions + 1
               /\ mpc' = "face_loop"
               /\ UNCHANGED <<match_count, best_distance, ref_i, calls,
                              region_decided, region_verified,
                              region_annotated, confidence_score>>
          ELSE /\ match_count' = 0
               /\ best_distance' = DistInf
               /\ ref_i' = 1
               /\ calls' = <<>>
               /\ region_decided' = FALSE
               /\ region_verified' = FALSE
               /\ region_annotated' = FALSE
               /\ confidence_score' = 0
               /\ mpc' = "ref_loop"
               /\ UNCHANGED discarded_regions
    /\ UNCHANGED <<n_refs, threshold, required_matches, found_faces, photo_ret,
                   n_faces, decided_regions, verify_errors>>
    /\ UNCHANGED notMatch

\* lines 199-200 as they would be if a failed call ended the reference loop
AfterVerifyError_Mut(next, n) == "decide"
\* lines 199-200: continue, that is the next reference image if there is one
AfterVerifyError(next, n) == IF next > n THEN "decide" ELSE "ref_loop"

\* line 213: round((1 - best_distance) * 100, 1), distances in hundredths
Confidence(bd) == 100 - bd

\* lines 182-200: one iteration of the loop over reference_images
VerifyCall ==
    /\ mpc = "ref_loop"
    /\ ref_i <= n_refs
    /\ \E result \in VerifyAnswers :
        LET counted == ~result.raised /\ Vote(result, threshold)
            mc == IF counted THEN match_count + 1 ELSE match_count
            bd == IF counted THEN Min(best_distance, result.distance)
                             ELSE best_distance
            stop == counted /\ ShortCircuit(mc, required_matches)
        IN  /\ match_count' = mc
            /\ best_distance' = bd
            /\ calls' = Append(calls, [raised |-> result.raised,
                                       verified |-> result.verified,
                                       distance |-> result.distance,
                                       counted |-> counted])
            /\ ref_i' = ref_i + 1
            /\ verify_errors' = IF result.raised THEN verify_errors + 1
                                                 ELSE verify_errors
            /\ mpc' = IF result.raised THEN AfterVerifyError(ref_i + 1, n_refs)
                      ELSE IF stop \/ ref_i + 1 > n_refs THEN "decide"
                      ELSE "ref_loop"
    /\ UNCHANGED <<n_refs, threshold, required_matches, faces_left,
                   region_decided, region_verified, region_annotated,
                   found_faces, photo_ret, n_faces, decided_regions,
                   discarded_regions, confidence_score>>
    /\ UNCHANGED notMatch

\* lines 202-253: the decision for the region; DeepFace.analyze may raise
DecideRegion ==
    /\ mpc = "decide"
    /\ region_decided' = TRUE
    /\ region_verified' = RegionVerified(match_count, required_matches, n_refs)
    /\ \E analyze_ok \in BOOLEAN :
        /\ region_annotated' = (region_verified' /\ analyze_ok)
        /\ found_faces' = (found_faces \/ region_annotated')
    /\ confidence_score' = IF region_annotated' THEN Confidence(best_distance)
                                                ELSE 0
    /\ decided_regions' = decided_regions + 1
    /\ mpc' = "face_loop"
    /\ UNCHANGED <<n_refs, threshold, required_matches, faces_left, ref_i,
                   match_count, best_distance, calls, photo_ret, n_faces,
                   discarded_regions, verify_errors>>
    /\ UNCHANGED notMatch

\* lines 255-257: the return value
ReturnPhoto ==
    /\ mpc = "face_loop"
    /\ faces_left = 0
    /\ photo_ret' = IF found_faces THEN "marked" ELSE "none"
    /\ mpc' = "returned"
    /\ UNCHANGED <<n_refs, threshold, required_matches, faces_left, ref_i,
                   match_count, best_distance, calls, region_decided,
                   region_verified, region_annotated, found_faces, n_faces,
                   decided_regions, discarded_regions, verify_errors,
                   confidence_score>>
    /\ UNCHANGED notMatch

NextMatch == NextFace \/ VerifyCall \/ DecideRegion \/ ReturnPhoto

\* the initial states: the inputs of this part, the other parts at rest
StartMatch == InitMatch /\ IdleSched /\ IdleAgg /\ IdleComp /\ IdleRest

SpecMatch == StartMatch /\ [][NextMatch]_vars

(***************************************************************************)
(* Lines 179-202 as a function of the answers: the reference loop over one *)
(* region with the answer of DeepFace.verify fixed for every reference     *)
(* image, run over the references in the listed order and in a second      *)
(* order.  The threshold is the 0.68 of app.py.                            *)
(***************************************************************************)
MaxOrderRefs == 3
AppThreshold == 68

\* what DeepFace.verify does for one reference image
OrderAnswers ==
    [raised : {TRUE}, verified : {FALSE}, distance : {0}]
    \cup [raised : {FALSE}, verified : BOOLEAN, distance : {30, 50, 69}]

\* the orders of n reference images
Orders(n) ==
    {f \in [1..n -> 1..n] : \A i, j \in 1..n : f[i] = f[j] => i = j}

\* lines 182-200 from the i-th reference image of refs on
RECURSIVE RefLoop(_, _, _, _, _, _)
RefLoop(refs, i, mc, bd, thr, k) ==
    IF i > Len(refs)
    THEN [match_count |-> mc, best_distance |-> bd, compared |-> i - 1]
    ELSE LET result == refs[i]
             counted == ~result.raised /\ Vote(result, thr)
             mc2 == IF counted THEN mc + 1 ELSE mc
             bd2 == IF counted THEN Min(bd, result.distance) ELSE bd
         IN  IF counted /\ ShortCircuit(mc2, k)
             THEN [match_count |-> mc2, best_distance |-> bd2, compared |-> i]
             ELSE RefLoop(refs, i + 1, mc2, bd2, thr, k)

\* lines 179-200: counters reset, then the loop
RegionOutcome(refs, thr, k) == RefLoop(refs, 1, 0, DistInf, thr, k)

InitOrder ==
    /\ o_pc = "start"
    /\ \E n \in 1..MaxOrderRefs :
          /\ o_answers \in [1..n -> OrderAnswers]
          /\ o_perm \in Orders(n)
    /\ o_k \in 1..MaxRequired
    /\ o_listed = NoOutcome
    /\ o_permuted = NoOutcome

\* the loop over reference_images as listed
RunListed ==
    /\ o_pc = "start"
    /\ o_listed' = RegionOutcome(o_answers, AppThreshold, o_k)
    /\ o_pc' = "listed"
    /\ UNCHANGED <<o_answers, o_perm, o_k, o_permuted>>
    /\ UNCHANGED notOrder

\* the loop over the same reference images in the second order
RunPermuted ==
    /\ o_pc = "listed"
    /\ o_permuted' =
          RegionOutcome([i \in DOMAIN o_perm |-> o_answers[o_perm[i]]],
                        AppThreshold, o_k)
    /\ o_pc' = "both"
    /\ UNCHANGED <<o_answers, o_perm, o_k, o_listed>>
    /\ UNCHANGED notOrder

NextOrder == RunListed \/ RunPermuted

\* the initial states: the answers and the two orders, the rest at rest
StartOrder ==
    InitOrder /\ IdleEarly /\ IdleClip /\ IdleFrame /\ IdleCache /\ IdleFlow
    /\ IdleNote

SpecOrder == StartOrder /\ [][NextOrder]_vars

(***************************************************************************)
(* Lines 160-176: the box of a detected face clipped to the image.         *)
(***************************************************************************)
InitClip ==
    /\ k_pc = "detected"
    /\ k_box \in FaceBoxes
    /\ k_shape \in ImageShapes
    /\ k_region = [x |-> 0, y |-> 0, w |-> 0, h |-> 0]
    /\ k_used = FALSE

\* lines 161-178: clip, then skip the region or crop it
ClipRegion ==
    /\ k_pc = "detected"
    /\ k_region' = ClipBox(k_box, k_shape)
    /\ k_used' = ~Discarded(k_region')
    /\ k_pc' = "clipped"
    /\ UNCHANGED <<k_box, k_shape>>
    /\ UNCHANGED notClip

NextClip == ClipRegion

\* the initial states: a detected box and an image, the rest at rest
StartClip ==
    InitClip /\ IdleEarly /\ IdleOrder /\ IdleFrame /\ IdleCache /\ IdleFlow
    /\ IdleNote

SpecClip == StartClip /\ [][NextClip]_vars

(***************************************************************************)
(* mark_reference_faces_in_photos on the executor of __init__.             *)
(*                                                                         *)
(* A task is "new" before it is submitted, "queued" on the executor's FIFO *)
(* queue (only while every worker is busy), "running" on a worker, "slow"  *)
(* when its worker executes it for longer than the timeout of              *)
(* future.result, and "done_marked" or "done_none" once it returned an     *)
(* image or None.  Time is abstracted: the wait for a future times out     *)
(* exactly when its task cannot make progress within the timeout, that is  *)
(* when the task is slow, or is queued while every worker is held by a     *)
(* slow task.                                                              *)
(***************************************************************************)
Photos == 1..n_photos

\* line 287-288: the batch a photo (1-based) belongs to, 0-based
BatchOf(p) == (p - 1) \div BatchSize

\* line 288: photo_files[i:i + batch_size]
BatchPhotos(i) == {p \in Photos : i < p /\ p <= i + BatchSize}

\* line 32: workers of the ThreadPoolExecutor that hold a task
BusyIn(t) == {p \in DOMAIN t : t[p] \in {"running", "slow"}}
Busy == BusyIn(task)

\* line 32: the queued tasks the free workers take at once, oldest first
RECURSIVE Taken(_, _)
Taken(queued, free) ==
    IF free = 0 \/ queued = {} THEN {}
    ELSE LET p == CHOOSE x \in queued : \A y \in queued : x <= y
         IN  {p} \cup Taken(queued \ {p}, free - 1)

\* line 32: the tasks the executor hands to its free workers
TakenIn(t) ==
    Taken({p \in DOMAIN t : t[p] = "queued"}, PoolSize - Cardinality(BusyIn(t)))

\* a task that starts is either fast ("running") or takes longer than the
\* timeout of future.result ("slow"); slowset are the slow ones
Dispatch(t, slowset) ==
    [p \in DOMAIN t |->
        IF p \in slowset THEN "slow"
        ELSE IF p \in TakenIn(t) THEN "running" ELSE t[p]]

\* line 280: os.listdir returns the names in an order of its own, any
\* permutation of their ranks
Listings(n) ==
    {f \in [1..n -> 1..n] : \A p, q \in 1..n : f[p] = f[q] => p = q}

\* the listing in ascending order of the names
SortedListing(n) == [p \in 1..n |-> p]

\* line 309 as it would be if every result were written
HasMarkedImage_Mut(t) == TRUE
\* line 309: marked_img is not None
HasMarkedImage(t) == t = "done_marked"

\* lines 255-257: the image when a region was annotated, None otherwise
ReturnOf(found_any) == IF found_any THEN "done_marked" ELSE "done_none"

\* line 277: the reference set is rejected
RefCheckFails_Mut(n) == FALSE
RefCheckFails(n) == n = 0

\* lines 316-318: the index the collection loop goes to after an exception
AfterExcept_Mut(j, len) == len + 1
AfterExcept(j, len) == j + 1

InitSched ==
    /\ s_nrefs \in 0..1
    /\ n_photos \in 0..MaxPhotos
    /\ photo_files = SortedListing(n_photos)
    /\ spc = "start"
    /\ batch_i = 0
    /\ futures = <<>>
    /\ col_j = 1
    /\ task = [p \in Photos |-> "new"]
    /\ outcome = [p \in Photos |-> "none"]
    /\ marked_files = <<>>
    /\ sleeps = 0

\* lines 271-287: the reference check and the entry of the batch loop
StartRun ==
    /\ spc = "start"
    /\ spc' = IF RefCheckFails(s_nrefs) THEN "error"
              ELSE IF n_photos = 0 THEN "returned" ELSE "submit"
    /\ UNCHANGED <<s_nrefs, n_photos, photo_files,
                   batch_i, futures, col_j, task,
                   outcome, marked_files, sleeps>>
    /\ UNCHANGED notSched

\* lines 291-303: one pass of the submit loop.  executor.submit hands the
\* next photo of the batch to the executor, where a free worker takes it at
\* once; the tasks submitted before it run meanwhile.  After the last
\* photo of the batch the collection loop begins.
SubmitPhoto ==
    /\ spc = "submit"
    /\ LET p == batch_i + Len(futures) + 1
           t == [task EXCEPT ![p] = "queued"]
       IN  /\ p \in BatchPhotos(batch_i)
           /\ \E slowset \in SUBSET TakenIn(t) : task' = Dispatch(t, slowset)
           /\ futures' = Append(futures, p)
    /\ col_j' = 1
    /\ spc' = IF Len(futures') = Cardinality(BatchPhotos(batch_i))
              THEN "collect" ELSE "submit"
    /\ UNCHANGED <<s_nrefs, n_photos, photo_files,
                   batch_i, outcome, marked_files, sleeps>>
    /\ UNCHANGED notSched

\* the collection loop leaves the batch after its last future
AfterCollect(j) == IF j > Len(futures) THEN "sleep" ELSE "collect"

\* lines 306-315: future.result returns within the timeout
CollectResult ==
    /\ spc = "collect"
    /\ col_j <= Len(futures)
    /\ LET p == futures[col_j] IN
        /\ task[p] \in {"done_marked", "done_none"}
        /\ IF HasMarkedImage(task[p])
           THEN \E write_ok \in BOOLEAN :
                  IF write_ok
                  THEN /\ marked_files' = Append(marked_files, p)
                       /\ outcome' = [outcome EXCEPT ![p] = "marked"]
                       /\ col_j' = col_j + 1
                  ELSE /\ marked_files' = marked_files
                       /\ outcome' = [outcome EXCEPT ![p] = "error"]
                       /\ col_j' = AfterExcept(col_j, Len(futures))
           ELSE /\ marked_files' = marked_files
                /\ outcome' = [outcome EXCEPT ![p] = "nomatch"]
                /\ col_j' = col_j + 1
    /\ spc' = AfterCollect(col_j')
    /\ UNCHANGED <<s_nrefs, n_photos, photo_files,
                   batch_i, futures, task, sleeps>>
    /\ UNCHANGED notSched

\* line 308: the wait of future.result(timeout=300) can expire
WaitExpires_Mut(p) == FALSE
WaitExpires(p) ==
    \/ task[p] = "slow"
    \/ /\ task[p] = "queued"
       /\ Cardinality(Busy) = PoolSize
       /\ \A q \in Busy : task[q] = "slow"

\* lines 308, 316-318: future.result raises TimeoutError
CollectTimeout ==
    /\ spc = "collect"
    /\ col_j <= Len(futures)
    /\ LET p == futures[col_j] IN
        /\ WaitExpires(p)
        /\ outcome' = [outcome EXCEPT ![p] = "timeout"]
    /\ col_j' = AfterExcept(col_j, Len(futures))
    /\ spc' = AfterCollect(col_j')
    /\ UNCHANGED <<s_nrefs, n_photos, photo_files,
                   batch_i, futures, task,
                   marked_files, sleeps>>
    /\ UNCHANGED notSched

\* lines 320-323, 287-289: the pacing delay, then the next batch with its
\* futures = [] or the return
SleepAfterBatch ==
    /\ spc = "sleep"
    /\ sleeps' = sleeps + 1
    /\ batch_i' = batch_i + BatchSize
    /\ spc' = IF batch_i + BatchSize < n_photos THEN "submit" ELSE "returned"
    /\ futures' = IF batch_i + BatchSize < n_photos THEN <<>> ELSE futures
    /\ UNCHANGED <<s_nrefs, n_photos, photo_files,
                   col_j, task, outcome,
                   marked_files>>
    /\ UNCHANGED notSched

\* lines 146-261: _process_single_photo returns on its worker
FinishTask ==
    /\ \E p \in Photos :
        /\ task[p] = "running"
        /\ \E found_any \in BOOLEAN :
           LET t == [task EXCEPT ![p] = ReturnOf(found_any)]
           IN  \E slowset \in SUBSET TakenIn(t) : task' = Dispatch(t, slowset)
    /\ UNCHANGED <<s_nrefs, n_photos, photo_files,
                   spc, batch_i, futures, col_j,
                   outcome, marked_files, sleeps>>
    /\ UNCHANGED notSched

\* a slow task returns after all; its worker is free again
LateFinish ==
    /\ \E p \in Photos :
        /\ task[p] = "slow"
        /\ \E found_any \in BOOLEAN :
           LET t == [task EXCEPT ![p] = ReturnOf(found_any)]
           IN  \E slowset \in SUBSET TakenIn(t) : task' = Dispatch(t, slowset)
    /\ UNCHANGED <<s_nrefs, n_photos, photo_files,
                   spc, batch_i, futures, col_j,
                   outcome, marked_files, sleeps>>
    /\ UNCHANGED notSched

NextSched ==
    \/ StartRun
    \/ SubmitPhoto
    \/ CollectResult
    \/ CollectTimeout
    \/ SleepAfterBatch
    \/ FinishTask
    \/ LateFinish

\* the initial states: the inputs of this part, the other parts at rest
StartSched == InitSched /\ IdleMatch /\ IdleAgg /\ IdleComp /\ IdleRest

SpecSched == StartSched /\ [][NextSched]_vars

\* lines 276-323 run on the request's thread, which keeps taking its next
\* step: a wait of future.result ends by the result or by the timeout
CallerStep ==
    \/ StartRun
    \/ SubmitPhoto
    \/ CollectResult
    \/ CollectTimeout
    \/ SleepAfterBatch

\* The same run with its scheduling: the caller's thread proceeds, and a
\* task that is not slow returns on its worker.  A slow task is promised
\* nothing: it may never return.
MaxLivePhotos == BatchSize + 1

\* the calls whose termination is examined: up to a full batch, which fills
\* the pool and leaves a task queued behind it, followed by a second batch
\* that is submitted while tasks of the first one still hold the workers
StartLive == StartSched /\ n_photos <= MaxLivePhotos

SpecSchedLive ==
    StartLive /\ [][NextSched]_vars /\ WF_vars(CallerStep)
    /\ WF_vars(FinishTask)

(***************************************************************************)
(* The same run over a directory listing in any order.                     *)
(***************************************************************************)
MaxListed == 3

InitListing ==
    /\ s_nrefs = 1
    /\ n_photos \in 0..MaxListed
    /\ photo_files \in Listings(n_photos)
    /\ spc = "start"
    /\ batch_i = 0
    /\ futures = <<>>
    /\ col_j = 1
    /\ task = [p \in Photos |-> "new"]
    /\ outcome = [p \in Photos |-> "none"]
    /\ marked_files = <<>>
    /\ sleeps = 0

\* the initial states: a listing in some order, the other parts at rest
StartListing == InitListing /\ IdleMatch /\ IdleAgg /\ IdleComp /\ IdleRest

SpecListing == StartListing /\ [][NextSched]_vars

(***************************************************************************)
(* _analyze_emotions_from_photos: the tally and the dominant emotion.      *)
(***************************************************************************)

\* What the loop body meets for one image file:
\*   "no_prefix"      'marked_' is not in the file name          (line 473)
\*   "unreadable"     cv2.imread returns None                    (line 476)
\*   "label"          DeepFace.analyze answers with a label      (line 481)
\*   "analyze_raises" DeepFace.analyze or the lookup raises      (line 484)
\*   "outer_raises"   basename or imread raises                  (line 486)
AnalyzeLabels == Vocabulary \cup {"Happy", "contempt"}

AggInputs ==
    [kind : {"no_prefix", "unreadable", "analyze_raises", "outer_raises"},
     label : {"neutral"}]
    \cup [kind : {"label"}, label : AnalyzeLabels]

\* line 481: str.lower on the labels the model draws from
Lower(l) == IF l = "Happy" THEN "happy" ELSE l

\* lines 470-488: the loop body, the counts after one image file
CountPhoto(counts, photo) ==
    CASE photo.kind = "no_prefix" -> counts
      [] photo.kind = "unreadable" -> counts
      [] photo.kind = "label" ->
           IF Lower(photo.label) \in DOMAIN counts
           THEN [counts EXCEPT ![Lower(photo.label)] = @ + 1]
           ELSE counts
      [] photo.kind = "analyze_raises" ->
           [counts EXCEPT !["neutral"] = @ + 1]
      [] OTHER -> [counts EXCEPT !["neutral"] = @ + 1]

\* line 491: max(emotion_counts.items(), key=lambda x: x[1])[0], the first
\* key in the dict's order that has the largest count
DominantOf(counts) ==
    LET best == CHOOSE i \in DOMAIN CountKeys :
                  /\ \A j \in DOMAIN CountKeys :
                        counts[CountKeys[j]] <= counts[CountKeys[i]]
                  /\ \A j \in DOMAIN CountKeys :
                        counts[CountKeys[j]] = counts[CountKeys[i]] => i <= j
    IN  CountKeys[best]

InitAgg ==
    /\ a_pc = "loop"
    /\ a_total \in 0..MaxAggPhotos
    /\ a_seen = 0
    /\ emotion_counts = [e \in Vocabulary |-> 0]
    /\ a_dominant = "unset"

\* lines 469-488: one image file of the list
AggPhoto ==
    /\ a_pc = "loop"
    /\ a_seen < a_total
    /\ \E photo \in AggInputs :
        emotion_counts' = CountPhoto(emotion_counts, photo)
    /\ a_seen' = a_seen + 1
    /\ UNCHANGED <<a_pc, a_total, a_dominant>>
    /\ UNCHANGED notAgg

\* lines 490-492: the dominant emotion is picked and returned
AggReturn ==
    /\ a_pc = "loop"
    /\ a_seen = a_total
    /\ a_dominant' = DominantOf(emotion_counts)
    /\ a_pc' = "returned"
    /\ UNCHANGED <<a_total, a_seen, emotion_counts>>
    /\ UNCHANGED notAgg

NextAgg == AggPhoto \/ AggReturn

\* the initial states: the inputs of this part, the other parts at rest
StartAgg == InitAgg /\ IdleMatch /\ IdleSched /\ IdleComp /\ IdleRest

SpecAgg == StartAgg /\ [][NextAgg]_vars

(***************************************************************************)
(* _generate_simple_audio and _generate_emotion_based_music: the length    *)
(* of the waveform and the theme it is composed from.                      *)
(***************************************************************************)

\* the labels the composition is asked for: the vocabulary and unknown ones
ComposeLabels == Vocabulary \cup {"Happy", "contempt", ""}

\* line 501: min_duration = max(duration, 30.0), in eighths of a second
MinDuration_Mut(d8) == d8
MinDuration(d8) == Max(d8, FloorSeconds * 8)

\* line 503: samples = int(min_duration * sample_rate)
Samples(min8) == (min8 * SampleRate) \div 8

\* line 632: emotion_themes.get(emotion, emotion_themes['neutral'])
ThemeFor_Mut(emotion) ==
    IF emotion \in DOMAIN EmotionThemes THEN EmotionThemes[emotion]
    ELSE EmotionThemes["happy"]
ThemeFor(emotion) ==
    IF emotion \in DOMAIN EmotionThemes THEN EmotionThemes[emotion]
    ELSE EmotionThemes["neutral"]

\* lines 657-671: the layer function the style selects
LayerFor(style) ==
    CASE style = "orchestral_upbeat" -> "_create_orchestral_layer"
      [] style = "piano_ballad" -> "_create_piano_layer"
      [] style = "orchestral_dramatic" -> "_create_dramatic_layer"
      [] style = "atmospheric_dark" -> "_create_atmospheric_layer"
      [] style = "orchestral_whimsical" -> "_create_whimsical_layer"
      [] style = "atonal_unsettling" -> "_create_unsettling_layer"
      [] OTHER -> "_create_ambient_layer"

(***************************************************************************)
(* The layer functions (lines 675-961): when each chord and each melody    *)
(* note sounds.  Times are in sixteenths of a beat, the smallest step any  *)
(* layer uses (the grace note of line 874); a beat is 60 / tempo seconds.  *)
(***************************************************************************)
BeatUnit == 16

\* the styles whose chords and notes are all multiplied by a time mask
GatedStyles ==
    {"orchestral_upbeat", "piano_ballad", "orchestral_dramatic",
     "orchestral_whimsical", "atonal_unsettling"}

\* a wave added without a mask sounds over the whole of t
WholeWave(part, i) ==
    [part |-> part, index |-> i, strike |-> 0, gated |-> FALSE,
     start |-> 0, stop |-> 0]

\* (t >= note_start) & (t < note_start + note_duration), e.g. line 705
NoteMask_Mut(part, i, strike, start16, len16) == WholeWave(part, i)
NoteMask(part, i, strike, start16, len16) ==
    [part |-> part, index |-> i, strike |-> strike, gated |-> TRUE,
     start |-> start16, stop |-> start16 + len16]

\* chord_start = i * beat_duration * k: the beats between two chords
ChordStride(style) ==
    CASE style \in {"orchestral_upbeat", "orchestral_dramatic",
                    "orchestral_whimsical"} -> 2 * BeatUnit
      [] style = "piano_ballad" -> 4 * BeatUnit
      [] style = "atonal_unsettling" -> 3 * BeatUnit
      [] OTHER -> 0

\* what the chord loop of the style's layer adds for chord i (from 0)
ChordEvents(style, i) ==
    LET chord_start == i * ChordStride(style)
    IN  CASE style \in {"orchestral_upbeat", "orchestral_dramatic"} ->
               {NoteMask("chord", i, 0, chord_start, 2 * BeatUnit)}
          [] style = "piano_ballad" ->
               {NoteMask("chord", i, j, chord_start + j * BeatUnit,
                         2 * BeatUnit) : j \in 0..3}
          [] style = "orchestral_whimsical" ->
               {NoteMask("chord", i, beat,
                         chord_start + beat * (BeatUnit \div 2),
                         BeatUnit \div 4) : beat \in 0..3}
          [] style = "atonal_unsettling" ->
               {NoteMask("chord", i, 0, chord_start, 3 * BeatUnit)}
          [] OTHER -> {WholeWave("pad", i)}

\* what the melody loop of the style's layer adds for note i (from 0)
MelodyEvents(style, i) ==
    CASE style = "orchestral_upbeat" ->
           {NoteMask("melody", i, 0, i * (BeatUnit \div 2), BeatUnit \div 2)}
      [] style = "piano_ballad" ->
           {NoteMask("melody", i, 0, i * BeatUnit, (3 * BeatUnit) \div 2)}
      [] style = "orchestral_dramatic" ->
           {NoteMask("melody", i, 0, i * (BeatUnit \div 2), BeatUnit)}
      [] style = "atmospheric_dark" ->
           IF i % 3 = 0
           THEN {NoteMask("melody", i, 0, i * 2 * BeatUnit, 3 * BeatUnit)}
           ELSE {}
      [] style = "orchestral_whimsical" ->
           {NoteMask("melody", i, 0, i * (BeatUnit \div 2), BeatUnit \div 2),
            NoteMask("grace", i, 0, i * (BeatUnit \div 2), BeatUnit \div 16)}
      [] style = "atonal_unsettling" ->
           {NoteMask("melody", i, 0, i * BeatUnit, (3 * BeatUnit) \div 2)}
      [] OTHER ->
           {NoteMask("melody", i, 0, i * 2 * BeatUnit, 4 * BeatUnit)}

InitComp ==
    /\ c_pc = "start"
    /\ c_duration \in 0..MaxDuration8
    /\ c_emotion \in ComposeLabels
    /\ c_min_duration = 0
    /\ c_samples = 0
    /\ c_theme = NoTheme
    /\ c_layer = "unset"

\* lines 500-519: the effective duration and the sample count
GenSamples ==
    /\ c_pc = "start"
    /\ c_min_duration' = MinDuration(c_duration)
    /\ c_samples' = Samples(c_min_duration')
    /\ c_pc' = "timed"
    /\ UNCHANGED <<c_duration, c_emotion, c_theme, c_layer>>
    /\ UNCHANGED notComp

\* lines 552-636: the theme of the label
SelectTheme ==
    /\ c_pc = "timed"
    /\ c_theme' = ThemeFor(c_emotion)
    /\ c_pc' = "themed"
    /\ UNCHANGED <<c_duration, c_emotion, c_min_duration, c_samples, c_layer>>
    /\ UNCHANGED notComp

\* lines 640-673: the layer recipe of the theme's style
ComposePiece ==
    /\ c_pc = "themed"
    /\ c_layer' = LayerFor(c_theme.style)
    /\ c_pc' = "composed"
    /\ UNCHANGED <<c_duration, c_emotion, c_min_duration, c_samples, c_theme>>
    /\ UNCHANGED notComp

NextComp == GenSamples \/ SelectTheme \/ ComposePiece

\* the initial states: the inputs of this part, the other parts at rest
StartComp == InitComp /\ IdleMatch /\ IdleSched /\ IdleAgg /\ IdleRest

SpecComp == StartComp /\ [][NextComp]_vars

(***************************************************************************)
(* Successive calls of _generate_simple_audio.  Each call lists the        *)
(* marked-photos folder (line 509), then reads and classifies the listed   *)
(* files one by one by their paths (lines 469-488), and composes for the   *)
(* label it found and the duration it is handed.  /analyze requests on     *)
(* other threads delete and write files of the folder between and during   *)
(* the calls, also between the listing and a read.  The folder maps each   *)
(* file name to the label DeepFace.analyze answers for the file, "none"    *)
(* where there is no file of that name.  The runs write marked_<photo> for *)
(* photos of every suffix line 282 accepts, in upper or lower case; the    *)
(* listing of line 510 keeps fewer.                                        *)
(***************************************************************************)
MaxFolder == 3
MaxCompositions == 3

\* the labels DeepFace.analyze answers for the photos of the folder
FolderLabels == {"happy", "sad"}

\* the file names marked_<photo> the folder can hold
FolderNames == 1..MaxFolder

\* the suffixes of those names, in turn: marked_P1.JPG, marked_p2.jpg,
\* marked_p3.png, marked_p4.bmp, marked_p5.jpeg, marked_P6.JPG, ...
NameSuffixes == <<".JPG", ".jpg", ".png", ".bmp", ".jpeg">>

SuffixOf(name) == NameSuffixes[((name - 1) % Len(NameSuffixes)) + 1]

\* line 510: f.endswith(('.png', '.jpg', '.jpeg')), which tells the case
EndsWithListed(name) == SuffixOf(name) \in {".png", ".jpg", ".jpeg"}

\* what the folder can hold
Folders == [FolderNames -> FolderLabels \cup {"none"}]

\* the folder without a file
EmptyFolder == [name \in FolderNames |-> "none"]

\* lines 509-510: os.listdir, the names of the files that are there, of
\* which those with a listed suffix are kept
NamesIn(folder) ==
    {name \in FolderNames : folder[name] # "none" /\ EndsWithListed(name)}

\* the durations create_video_from_photos asks for: 5 s and above 30 s
KeyDurations == {5 * 8, MaxDuration8}

\* lines 467-489 over the listed files of a folder nobody changes meanwhile
FolderCounts(folder) ==
    [e \in Vocabulary |->
        Cardinality({name \in NamesIn(folder) : folder[name] = e})]

\* lines 512-514: dominant_emotion of the folder, 'neutral' when no file of
\* it is listed
FolderEmotion(folder) ==
    IF NamesIn(folder) = {} THEN "neutral"
    ELSE DominantOf(FolderCounts(folder))

\* line 522: the theme comes from the label handed over and nothing else
ThemeOfCall(emotion) == ThemeFor(emotion)

InitAudio ==
    /\ InitComp
    /\ c_duration \in KeyDurations
    /\ c_i = 0
    /\ c_audio = <<>>
    /\ fs_marked \in Folders
    /\ fs_unread = {}
    /\ fs_counts = [e \in Vocabulary |-> 0]
    /\ c_emotion = "neutral"
    /\ c_first = NoComposition
    /\ c_runs = 0

\* lines 475-485 for the listed file of this name: what imread and
\* DeepFace.analyze find at its path now
ReadOf(name) ==
    IF fs_marked[name] # "none"
    THEN [kind |-> "label", label |-> fs_marked[name]]
    ELSE [kind |-> "unreadable", label |-> "neutral"]

\* lines 506-514: the folder is listed; an empty listing leaves 'neutral'
ListMarked ==
    /\ c_pc = "timed"
    /\ fs_unread' = NamesIn(fs_marked)
    /\ fs_counts' = [e \in Vocabulary |-> 0]
    /\ c_emotion' = "neutral"
    /\ c_pc' = IF NamesIn(fs_marked) = {} THEN "classified" ELSE "listed"
    /\ UNCHANGED <<c_duration, c_min_duration, c_samples, c_theme, c_layer>>
    /\ UNCHANGED <<c_i, c_audio, fs_marked, c_first, c_runs>>
    /\ UNCHANGED notAudio

\* lines 469-488: the next listed file, in the order os.listdir gave, is
\* read and classified; after the last one lines 491-492 pick the dominant
\* emotion
ReadMarked ==
    /\ c_pc = "listed"
    /\ \E name \in fs_unread :
          /\ fs_counts' = CountPhoto(fs_counts, ReadOf(name))
          /\ fs_unread' = fs_unread \ {name}
    /\ IF fs_unread' = {}
       THEN c_emotion' = DominantOf(fs_counts') /\ c_pc' = "classified"
       ELSE UNCHANGED <<c_emotion, c_pc>>
    /\ UNCHANGED <<c_duration, c_min_duration, c_samples, c_theme, c_layer>>
    /\ UNCHANGED <<c_i, c_audio, fs_marked, c_first, c_runs>>
    /\ UNCHANGED notAudio

\* lines 552-636 inside a call of _generate_simple_audio
SelectCallTheme ==
    /\ c_pc = "classified"
    /\ c_theme' = ThemeOfCall(c_emotion)
    /\ c_pc' = "themed"
    /\ UNCHANGED <<c_duration, c_emotion, c_min_duration, c_samples, c_layer>>
    /\ UNCHANGED <<audioVars, notAudio>>

\* np.zeros_like(t) as it would be if the array of the call before were
\* taken up again
ZerosLike_Mut(audio) == audio
\* lines 644 and 679: audio = np.zeros_like(t), an array nothing was added to
ZerosLike(audio) == <<>>

\* what one pass of a loop adds to audio: the waves at one frequency of the
\* theme, each with the mask that says when it sounds
WaveOf(freq, events) == [freq |-> freq, events |-> events]

\* lines 640-671 and e.g. 675-680: the layer function of the theme's style
\* is entered with a new array
EnterLayer ==
    /\ c_pc = "themed"
    /\ c_layer' = LayerFor(c_theme.style)
    /\ c_audio' = ZerosLike(c_audio)
    /\ c_i' = 0
    /\ c_pc' = "chords"
    /\ UNCHANGED <<c_duration, c_emotion, c_min_duration, c_samples, c_theme>>
    /\ UNCHANGED <<fs_marked, fs_unread, fs_counts, c_first, c_runs>>
    /\ UNCHANGED notAudio

\* one pass of the loop over chords, e.g. lines 683-698: audio += the waves
\* of chord c_i
AddChord ==
    /\ c_pc = "chords"
    /\ c_audio' = Append(c_audio,
                         WaveOf(c_theme.chord_progression[c_i + 1],
                                ChordEvents(c_theme.style, c_i)))
    /\ IF c_i + 1 < Len(c_theme.chord_progression)
       THEN c_i' = c_i + 1 /\ c_pc' = "chords"
       ELSE c_i' = 0 /\ c_pc' = "melody"
    /\ UNCHANGED <<c_duration, c_emotion, c_min_duration, c_samples, c_theme,
                   c_layer>>
    /\ UNCHANGED <<fs_marked, fs_unread, fs_counts, c_first, c_runs>>
    /\ UNCHANGED notAudio

\* one pass of the loop over melody, e.g. lines 701-715: audio += the waves
\* of note c_i; after the last one the layer returns (line 717) and
\* _compose_cinematic_piece returns it (lines 659-673)
AddNote ==
    /\ c_pc = "melody"
    /\ c_audio' = Append(c_audio,
                         WaveOf(c_theme.melody_notes[c_i + 1],
                                MelodyEvents(c_theme.style, c_i)))
    /\ IF c_i + 1 < Len(c_theme.melody_notes)
       THEN c_i' = c_i + 1 /\ c_pc' = "melody"
       ELSE c_i' = c_i + 1 /\ c_pc' = "composed"
    /\ UNCHANGED <<c_duration, c_emotion, c_min_duration, c_samples, c_theme,
                   c_layer>>
    /\ UNCHANGED <<fs_marked, fs_unread, fs_counts, c_first, c_runs>>
    /\ UNCHANGED notAudio

\* lines 524-546: fade, normalise, write the file and return
FinishAudio ==
    /\ c_pc = "composed"
    /\ c_pc' = "returned"
    /\ c_runs' = c_runs + 1
    /\ c_first' = IF c_runs = 0
                  THEN [emotion |-> c_emotion, duration |-> c_duration,
                        samples |-> c_samples, theme |-> c_theme,
                        layer |-> c_layer, audio |-> c_audio]
                  ELSE c_first
    /\ UNCHANGED <<c_duration, c_emotion, c_min_duration, c_samples, c_theme,
                   c_layer, c_i, c_audio, fs_marked, fs_unread, fs_counts>>
    /\ UNCHANGED notAudio

\* app.py lines 105 and 131-137: an /analyze request on another thread
\* unlinks a file of the folder (clear_data) or writes a marked photo (line
\* 311), one file at a time and at any moment
ReplaceMarked ==
    /\ \E name \in FolderNames, label \in FolderLabels \cup {"none"} :
          /\ label # fs_marked[name]
          /\ fs_marked' = [fs_marked EXCEPT ![name] = label]
    /\ UNCHANGED <<compVars, c_i, c_audio, fs_unread, fs_counts, c_first,
                   c_runs>>
    /\ UNCHANGED notAudio

\* the next call of _generate_simple_audio, with its own duration
NextCall ==
    /\ c_pc = "returned"
    /\ c_runs < MaxCompositions
    /\ c_pc' = "start"
    /\ c_duration' \in KeyDurations
    /\ c_emotion' = "neutral"
    /\ c_min_duration' = 0
    /\ c_samples' = 0
    /\ c_theme' = NoTheme
    /\ c_layer' = "unset"
    /\ fs_unread' = {}
    /\ fs_counts' = [e \in Vocabulary |-> 0]
    /\ UNCHANGED <<c_i, c_audio, fs_marked, c_first, c_runs>>
    /\ UNCHANGED notAudio

NextAudio ==
    \/ GenSamples
    \/ ListMarked
    \/ ReadMarked
    \/ SelectCallTheme
    \/ EnterLayer
    \/ AddChord
    \/ AddNote
    \/ FinishAudio
    \/ ReplaceMarked
    \/ NextCall

\* the initial states: the first call, the other parts at rest
StartAudio ==
    InitAudio /\ IdleMatch /\ IdleSched /\ IdleAgg /\ IdleNorm /\ IdleVideo
    /\ IdleServer /\ IdleLate

SpecAudio == StartAudio /\ [][NextAudio]_vars

(***************************************************************************)
(* _generate_simple_audio, lines 533-540: normalisation to 0.8 of full     *)
(* scale and conversion to 16-bit integers.  A waveform is a sequence of   *)
(* integer amplitudes; its normalised samples are exact fractions          *)
(* w_norm[i] / w_den.                                                      *)
(***************************************************************************)
MaxWave == 3
MaxAmp == 4
FullScale == 32767

\* the values a sample of the composed waveform takes
Amplitudes == (-MaxAmp)..MaxAmp

\* the waveforms that reach line 534
Waveforms == UNION {[1..n -> Amplitudes] : n \in 1..MaxWave}

Abs(x) == IF x >= 0 THEN x ELSE -x

\* line 535: np.max(np.abs(audio))
RECURSIVE PeakOf(_)
PeakOf(audio) ==
    IF audio = <<>> THEN 0
    ELSE Max(Abs(audio[Len(audio)]),
             PeakOf(SubSeq(audio, 1, Len(audio) - 1)))

\* line 537 without the headroom: audio / max_val, over 10 * max_val
Headroom_Mut(x) == x * 10
\* line 537: audio / max_val * 0.8, as a numerator over 10 * max_val
Headroom(x) == x * 8

\* astype(np.int16) of a value inside the int16 range: truncation to zero
TruncDiv(a, b) == IF a >= 0 THEN a \div b ELSE -((-a) \div b)

InitNorm ==
    /\ w_pc = "composed"
    /\ w_audio \in Waveforms
    /\ w_max_val = -1
    /\ w_norm = <<>>
    /\ w_den = 1
    /\ w_int16 = <<>>

\* lines 535-537: max_val, and the division when max_val > 0
Normalize ==
    /\ w_pc = "composed"
    /\ w_max_val' = PeakOf(w_audio)
    /\ IF w_max_val' > 0
       THEN /\ w_norm' = [i \in DOMAIN w_audio |-> Headroom(w_audio[i])]
            /\ w_den' = 10 * w_max_val'
       ELSE /\ w_norm' = w_audio
            /\ w_den' = 1
    /\ w_pc' = "normalized"
    /\ UNCHANGED <<w_audio, w_int16>>
    /\ UNCHANGED notNorm

\* line 540: (audio * 32767).astype(np.int16)
Quantize ==
    /\ w_pc = "normalized"
    /\ w_int16' = [i \in DOMAIN w_norm |->
                     TruncDiv(w_norm[i] * FullScale, w_den)]
    /\ w_pc' = "quantized"
    /\ UNCHANGED <<w_audio, w_max_val, w_norm, w_den>>
    /\ UNCHANGED notNorm

NextNorm == Normalize \/ Quantize

\* the initial states: a composed waveform, the other parts at rest
StartNorm ==
    InitNorm /\ IdleMatch /\ IdleSched /\ IdleAgg /\ IdleComp /\ IdleAudio
    /\ IdleVideo /\ IdleServer /\ IdleLate

SpecNorm == StartNorm /\ [][NextNorm]_vars

(***************************************************************************)
(* /generate_video, create_video_from_photos and _add_audio_to_video: the  *)
(* silent video, the soundtrack and the response.  Which of the external   *)
(* calls fail is drawn where the call is made.                             *)
(***************************************************************************)
MaxImages == 3
SecondsPerImage == 3
VideoFps == 1

\* line 369: int(fps * 3) frames per image, fps being the 1 of app.py
FramesPerImage == VideoFps * SecondsPerImage

\* the ways lines 327-395 and 402-404 fail before the soundtrack is
\* attempted: an exception (before or after the writer was opened), the
\* first image unreadable, the writer not opened, the temporary file gone
\* or empty at line 379
BaseFailures == {"raised", "first_image", "writer", "temp_missing",
                 "temp_empty"}

\* the ways lines 414-447 fail: the clip cannot be opened; generating or
\* loading the soundtrack raises; no audio file was generated (the else of
\* line 448); writing the muxed file raises; one of lines 439-445 raises
\* after the muxed file was written
MuxFailures == {"open_clip", "audio", "no_audio", "write", "close"}

\* how lines 386-387 and the finally of lines 399-400 end after
\* _add_audio_to_video returned: without an exception; os.remove raising on
\* a file another thread deleted after line 386; os.remove raising on a file
\* that stays; the second out.release() raising
CleanupOutcomes == {"ok", "remove_raises_gone", "remove_raises_kept",
                    "release_raises"}

\* what the output path holds when the fallback copy of line 460 begins:
\* what it held before the call while nothing was written to it; after
\* write_videofile raised, that, a partial file or the whole muxed file;
\* the muxed file after one of lines 439-445 raised; and after the copy of
\* line 452 raised, what that copy left
OutputAtFailure(fail, output) ==
    CASE fail \in {"open_clip", "audio"} -> {output}
      [] fail = "no_audio" -> {output, "partial", "silent"}
      [] fail = "write" -> {output, "partial", "with_audio"}
      [] OTHER -> {"with_audio"}

\* how shutil.copy2 ends: it returns; it raises before it opens the
\* destination (the source is gone); it raises while it writes; it raises
\* in copystat, after the content was copied
CopyOutcomes == {"ok", "raises_before", "raises_during", "raises_after"}

\* shutil.copy2(video_path, output_path): what the output path holds then
CopyResult(before, copy) ==
    CASE copy = "raises_before" -> before
      [] copy = "raises_during" -> "partial"
      [] OTHER -> "silent"

\* lines 448-463 as they would be if a failed soundtrack aborted the run
AfterMuxFailure_Mut(before, copy) ==
    [output |-> before, ret |-> "false"]
\* lines 448-463: the silent video is copied to the output path and True is
\* returned; only when the copy raises too is False returned
AfterMuxFailure(before, copy) ==
    [output |-> CopyResult(before, copy),
     ret |-> IF copy = "ok" THEN "true" ELSE "false"]

\* lines 385-392 and 399-404: the temporary file and the value returned
\* once _add_audio_to_video has returned
AfterCleanup(success, cleanup) ==
    [temp |-> IF cleanup = "remove_raises_kept" THEN "written" ELSE "absent",
     ret |-> IF cleanup = "ok" THEN success ELSE "false"]

\* app.py lines 168-175 as they would be if the result were not looked at
StatusOf_Mut(success) == 200
\* app.py lines 168-175: 500 unless create_video_from_photos returned True
StatusOf(success) == IF success = "true" THEN 200 ELSE 500

InitVideo ==
    /\ v_pc = "request"
    /\ v_n \in 0..MaxImages
    /\ v_output \in {"absent", "stale"}
    /\ v_temp \in {"absent", "empty", "written"}
    /\ v_frames = 0
    /\ v_base_fail = "none"
    /\ v_mux_fail = "none"
    /\ v_copy = "unset"
    /\ v_cleanup = "unset"
    /\ v_success = "unset"
    /\ v_status = 0

\* app.py lines 148-154: clear the output folder, list the marked photos;
\* clear_data swallows the error of a file it cannot delete, so each of the
\* two files of an earlier request is deleted or stays
ClearAndList ==
    /\ v_pc = "request"
    /\ \E deleted \in BOOLEAN :
          v_output' = IF deleted THEN "absent" ELSE v_output
    /\ \E deleted \in BOOLEAN :
          v_temp' = IF deleted THEN "absent" ELSE v_temp
    /\ IF v_n = 0
       THEN /\ v_status' = 400
            /\ v_pc' = "responded"
       ELSE /\ v_status' = 0
            /\ v_pc' = "create"
    /\ UNCHANGED <<v_n, v_frames, v_base_fail, v_mux_fail, v_copy, v_cleanup,
                   v_success>>
    /\ UNCHANGED notVideo

\* lines 327-397 and 402-404 failing: False is returned before any
\* soundtrack.  Before the writer is opened the temporary file is as it
\* was; an exception after that leaves the file with the frames written so
\* far (out.write or out.release raising); the checks of line 379 fail on
\* a file that is gone or that holds nothing.
SilentVideoFails ==
    /\ v_pc = "create"
    /\ \E fail \in BaseFailures :
          /\ v_base_fail' = fail
          /\ CASE fail = "first_image" ->
                    UNCHANGED <<v_temp, v_frames>>
               [] fail = "writer" ->
                    /\ v_temp' \in {v_temp, "empty"}
                    /\ UNCHANGED v_frames
               [] fail = "raised" ->
                    \/ UNCHANGED <<v_temp, v_frames>>
                    \/ /\ v_frames' \in 0..(v_n * FramesPerImage)
                       /\ v_temp' \in IF v_frames' = 0
                                       THEN {"empty", "written"}
                                       ELSE {"written"}
               [] fail = "temp_missing" ->
                    /\ \E readable \in 0..v_n :
                          v_frames' = readable * FramesPerImage
                    /\ v_temp' = "absent"
               [] OTHER ->
                    /\ v_frames' = 0
                    /\ v_temp' = "empty"
    /\ v_success' = "false"
    /\ v_pc' = "created"
    /\ UNCHANGED <<v_n, v_output, v_mux_fail, v_copy, v_cleanup, v_status>>
    /\ UNCHANGED notVideo

\* lines 327-379: the temporary video holds int(fps * 3) frames of every
\* image the loop of lines 364-373 could read (none of them when the marked
\* photos were deleted after line 338) and is not empty
SilentVideoWritten ==
    /\ v_pc = "create"
    /\ \E readable \in 0..v_n :
          v_frames' = readable * FramesPerImage
    /\ v_temp' = "written"
    /\ v_pc' = "mux"
    /\ UNCHANGED <<v_n, v_output, v_base_fail, v_mux_fail, v_copy, v_cleanup,
                   v_success, v_status>>
    /\ UNCHANGED notVideo

\* lines 414-447 and 382-404: the soundtrack is generated and muxed, the
\* temporary file is removed
AudioAdded ==
    /\ v_pc = "mux"
    /\ v_output' = "with_audio"
    /\ \E cleanup \in CleanupOutcomes :
          LET c == AfterCleanup("true", cleanup)
          IN  /\ v_cleanup' = cleanup
              /\ v_temp' = c.temp
              /\ v_success' = c.ret
    /\ v_pc' = "created"
    /\ UNCHANGED <<v_n, v_frames, v_base_fail, v_mux_fail, v_copy, v_status>>
    /\ UNCHANGED notVideo

\* lines 414-463 and 382-404: the soundtrack fails, the fallback runs and
\* the temporary file is removed
AudioFails ==
    /\ v_pc = "mux"
    /\ \E fail \in MuxFailures, copy \in CopyOutcomes,
          cleanup \in CleanupOutcomes :
          \E before \in OutputAtFailure(fail, v_output) :
             LET r == AfterMuxFailure(before, copy)
                 c == AfterCleanup(r.ret, cleanup)
             IN /\ v_mux_fail' = fail
                /\ v_copy' = copy
                /\ v_output' = r.output
                /\ v_cleanup' = cleanup
                /\ v_temp' = c.temp
                /\ v_success' = c.ret
    /\ v_pc' = "created"
    /\ UNCHANGED <<v_n, v_frames, v_base_fail, v_status>>
    /\ UNCHANGED notVideo

\* app.py lines 168-175: the response
Respond ==
    /\ v_pc = "created"
    /\ v_status' = StatusOf(v_success)
    /\ v_pc' = "responded"
    /\ UNCHANGED <<v_n, v_output, v_temp, v_frames, v_base_fail, v_mux_fail,
                   v_copy, v_cleanup, v_success>>
    /\ UNCHANGED notVideo

NextVideo ==
    \/ ClearAndList
    \/ SilentVideoFails
    \/ SilentVideoWritten
    \/ AudioAdded
    \/ AudioFails
    \/ Respond

\* the initial states: a request arrives, the other parts at rest
StartVideo ==
    InitVideo /\ IdleMatch /\ IdleSched /\ IdleAgg /\ IdleComp /\ IdleAudio
    /\ IdleNorm /\ IdleServer /\ IdleLate

SpecVideo == StartVideo /\ [][NextVideo]_vars

(***************************************************************************)
(* create_video_from_photos, lines 363-376, for any fps: the frames        *)
(* written for each image file.  fps is counted in halves, so that         *)
(* fps * 3 is f_fps2 * 3 / 2, exact in binary floating point.              *)
(***************************************************************************)
MaxFps2 == 5
MaxFrameFiles == 3

\* line 369: int(fps * 3)
HoldFrames(fps2) == (fps2 * SecondsPerImage) \div 2

\* round(n2 / 2) as Python rounds: halves go to the even neighbour
PyRoundHalves(n2) ==
    IF n2 % 2 = 0 THEN n2 \div 2
    ELSE IF ((n2 - 1) \div 2) % 2 = 0 THEN (n2 - 1) \div 2
    ELSE (n2 + 1) \div 2

InitFrame ==
    /\ f_pc = "writing"
    /\ f_fps2 \in 1..MaxFps2
    /\ f_n \in 1..MaxFrameFiles
    /\ f_i = 1
    /\ f_written = 0
    /\ f_skipped = 0

\* lines 364-373: one image file, written int(fps * 3) times when readable
WriteImage ==
    /\ f_pc = "writing"
    /\ f_i <= f_n
    /\ \E readable \in BOOLEAN :
          IF readable
          THEN /\ f_written' = f_written + HoldFrames(f_fps2)
               /\ f_skipped' = f_skipped
          ELSE /\ f_written' = f_written
               /\ f_skipped' = f_skipped + 1
    /\ f_i' = f_i + 1
    /\ UNCHANGED <<f_pc, f_fps2, f_n>>
    /\ UNCHANGED notFrame

\* line 376: out.release() after the last image file
ReleaseWriter ==
    /\ f_pc = "writing"
    /\ f_i > f_n
    /\ f_pc' = "released"
    /\ UNCHANGED <<f_fps2, f_n, f_i, f_written, f_skipped>>
    /\ UNCHANGED notFrame

NextFrame == WriteImage \/ ReleaseWriter

\* the initial states: the arguments of the call, the rest at rest
StartFrame ==
    InitFrame /\ IdleEarly /\ IdleOrder /\ IdleClip /\ IdleCache /\ IdleFlow
    /\ IdleNote

SpecFrame == StartFrame /\ [][NextFrame]_vars

(***************************************************************************)
(* _detect_faces behind lru_cache(maxsize=32), keyed on the photo path,    *)
(* called by the worker threads of the executor, and /upload_photos        *)
(* replacing the files at those paths meanwhile.  A file is a version      *)
(* number, 0 where no readable file is stored; the faces localized in      *)
(* version c are tagged c, and the empty dict of lines 140 and 144 is      *)
(* tagged 0.  The lookup in the cache, the body of the function and the    *)
(* store of its result are separate steps of a thread: nothing locks the   *)
(* cache across a call.                                                    *)
(***************************************************************************)
MaxPaths == 2
MaxVersions == 2
MaxCallers == 2
CacheSize == 32

PhotoPaths == 1..MaxPaths

\* the worker threads that run _process_single_photo
Callers == 1..MaxCallers

\* no readable file at a path: unlinked, or half saved
NoFile == 0

\* line 141: what RetinaFace.detect_faces localizes in a file
FacesOf(content) == content

\* the empty dict returned when reading or detecting failed
NoFaces == 0

\* a thread that is in no call
NoWork == [path |-> 0, faces |-> 0]

CachedPaths(cache) == {cache[i].path : i \in DOMAIN cache}

\* the entry of a path that is in the cache
EntryOf(cache, path) ==
    cache[CHOOSE i \in DOMAIN cache : cache[i].path = path]

\* the cache without the entry of a path
RECURSIVE Without(_, _)
Without(cache, path) ==
    IF cache = <<>> THEN <<>>
    ELSE IF Head(cache).path = path THEN Without(Tail(cache), path)
    ELSE <<Head(cache)>> \o Without(Tail(cache), path)

\* line 134: the entry becomes the most recently used one, and the least
\* recently used one is dropped beyond maxsize
Touch(cache, entry) ==
    LET c == Append(Without(cache, entry.path), entry)
    IN  IF Len(c) > CacheSize THEN Tail(c) ELSE c

\* line 134: lru_cache looks the call up by its arguments, the path
CacheHit(cache, path, content) == path \in CachedPaths(cache)

\* line 134, after the body returned: the result is stored unless another
\* thread stored an entry for the path during the call, which then stays
StoreResult(cache, entry) ==
    IF entry.path \in CachedPaths(cache) THEN cache ELSE Touch(cache, entry)

InitCache ==
    /\ d_pc = [t \in Callers |-> "idle"]
    /\ d_call = [t \in Callers |-> NoWork]
    /\ d_content \in [PhotoPaths -> {NoFile} \cup 1..MaxVersions]
    /\ d_cache = <<>>
    /\ d_last = NoCall

\* app.py lines 75 and 211-215: clear_data(PHOTOS_FOLDER) unlinks one file
UnlinkPhoto ==
    /\ \E path \in PhotoPaths :
          /\ d_content[path] # NoFile
          /\ d_content' = [d_content EXCEPT ![path] = NoFile]
    /\ UNCHANGED <<d_pc, d_call, d_cache, d_last>>
    /\ UNCHANGED notCache

\* app.py lines 85-90: file.save stores an uploaded file under its name
SavePhoto ==
    /\ \E path \in PhotoPaths, c \in 1..MaxVersions :
          /\ d_content[path] # c
          /\ d_content' = [d_content EXCEPT ![path] = c]
    /\ UNCHANGED <<d_pc, d_call, d_cache, d_last>>
    /\ UNCHANGED notCache

\* lines 149-151: a worker reads the photo and goes on when it is readable
ReadPhoto(t) ==
    /\ d_pc[t] = "idle"
    /\ \E path \in PhotoPaths :
          /\ d_content[path] # NoFile
          /\ d_call' = [d_call EXCEPT ![t] = [path |-> path, faces |-> NoFaces]]
    /\ d_pc' = [d_pc EXCEPT ![t] = "read"]
    /\ UNCHANGED <<d_content, d_cache, d_last>>
    /\ UNCHANGED notCache

\* lines 153 and 134: the call is looked up; a hit returns the entry, a miss
\* enters the body
LookupFaces(t) ==
    /\ d_pc[t] = "read"
    /\ LET path == d_call[t].path
       IN  IF CacheHit(d_cache, path, d_content[path])
           THEN LET e == EntryOf(d_cache, path)
                IN  /\ d_last' = [path |-> path, content |-> d_content[path],
                                  faces |-> e.faces, hit |-> TRUE]
                    /\ d_cache' = Touch(d_cache, e)
                    /\ d_pc' = [d_pc EXCEPT ![t] = "idle"]
                    /\ d_call' = [d_call EXCEPT ![t] = NoWork]
           ELSE /\ d_pc' = [d_pc EXCEPT ![t] = "missed"]
                /\ UNCHANGED <<d_call, d_cache, d_last>>
    /\ UNCHANGED d_content
    /\ UNCHANGED notCache

\* lines 136-144: the body reads the file that is stored at the path now and
\* localizes its faces; an unreadable file or a detector error gives {}
DetectFaces(t) ==
    /\ d_pc[t] = "missed"
    /\ \E detected \in BOOLEAN :
          LET content == d_content[d_call[t].path]
              faces == IF detected /\ content # NoFile THEN FacesOf(content)
                                                        ELSE NoFaces
          IN  d_call' = [d_call EXCEPT ![t].faces = faces]
    /\ d_pc' = [d_pc EXCEPT ![t] = "detected"]
    /\ UNCHANGED <<d_content, d_cache, d_last>>
    /\ UNCHANGED notCache

\* line 134: the wrapper stores the result and the call returns it
StoreFaces(t) ==
    /\ d_pc[t] = "detected"
    /\ d_cache' = StoreResult(d_cache, d_call[t])
    /\ d_last' = [path |-> d_call[t].path,
                  content |-> d_content[d_call[t].path],
                  faces |-> d_call[t].faces, hit |-> FALSE]
    /\ d_pc' = [d_pc EXCEPT ![t] = "idle"]
    /\ d_call' = [d_call EXCEPT ![t] = NoWork]
    /\ UNCHANGED d_content
    /\ UNCHANGED notCache

NextCache ==
    \/ UnlinkPhoto
    \/ SavePhoto
    \/ \E t \in Callers :
        \/ ReadPhoto(t)
        \/ LookupFaces(t)
        \/ DetectFaces(t)
        \/ StoreFaces(t)

\* the initial states: uploaded photos and an empty cache, the rest at rest
StartCache ==
    InitCache /\ IdleEarly /\ IdleOrder /\ IdleClip /\ IdleFrame /\ IdleFlow
    /\ IdleNote

SpecCache == StartCache /\ [][NextCache]_vars

(***************************************************************************)
(* One photo from _process_single_photo to _analyze_emotions_from_photos:  *)
(* the labels drawn on its verified regions (lines 204-246), the file      *)
(* marked_<photo> (line 310), and the vote the aggregator casts for that   *)
(* file (lines 470-488).                                                   *)
(***************************************************************************)
MaxFlowRegions == 2

\* line 209: the labels DeepFace.analyze answers for a cropped face
CropLabels == Vocabulary

\* lines 473-488 for a file named marked_<photo>
FlowInputs == {i \in AggInputs : i.kind # "no_prefix"}

\* the key lines 470-488 count one image file under, "none" when they
\* count it under no key
VoteOf(photo) ==
    LET counts == CountPhoto([e \in Vocabulary |-> 0], photo)
    IN  IF \E e \in Vocabulary : counts[e] = 1
        THEN CHOOSE e \in Vocabulary : counts[e] = 1
        ELSE "none"

InitFlow ==
    /\ p_pc = "matching"
    /\ p_annotated = <<>>
    /\ p_analysis = [kind |-> "unreadable", label |-> "neutral"]
    /\ p_vote = "none"

\* lines 204-253 and 306-313: the verified regions are labelled from their
\* crops, the labels are drawn and the marked file is written
AnnotatePhoto ==
    /\ p_pc = "matching"
    /\ \E n \in 1..MaxFlowRegions :
          p_annotated' \in [1..n -> CropLabels]
    /\ p_pc' = "marked"
    /\ UNCHANGED <<p_analysis, p_vote>>
    /\ UNCHANGED notFlow

\* lines 470-488: the aggregator reads the marked file and analyses it anew
TallyPhoto ==
    /\ p_pc = "marked"
    /\ \E photo \in FlowInputs :
          /\ p_analysis' = photo
          /\ p_vote' = VoteOf(photo)
    /\ p_pc' = "tallied"
    /\ UNCHANGED p_annotated
    /\ UNCHANGED notFlow

NextFlow == AnnotatePhoto \/ TallyPhoto

\* the initial states: a photo about to be matched, the rest at rest
StartFlow ==
    InitFlow /\ IdleEarly /\ IdleOrder /\ IdleClip /\ IdleFrame /\ IdleCache
    /\ IdleNote

SpecFlow == StartFlow /\ [][NextFlow]_vars

(***************************************************************************)
(* One piece composed by its layer function: the loop over the chords and  *)
(* the loop over the melody notes, pass by pass.                           *)
(***************************************************************************)
\* the theme the piece of this call is composed from
NoteTheme == ThemeFor(m_emotion)

InitNote ==
    /\ m_pc = "chords"
    /\ m_emotion \in ComposeLabels
    /\ m_min8 \in {MinDuration(d8) : d8 \in KeyDurations}
    /\ m_i = 0
    /\ m_events = {}

\* one pass of the loop over chords, e.g. lines 683-698
ScheduleChord ==
    /\ m_pc = "chords"
    /\ m_events' = m_events \cup ChordEvents(NoteTheme.style, m_i)
    /\ IF m_i + 1 < Len(NoteTheme.chord_progression)
       THEN m_i' = m_i + 1 /\ m_pc' = "chords"
       ELSE m_i' = 0 /\ m_pc' = "melody"
    /\ UNCHANGED <<m_emotion, m_min8>>
    /\ UNCHANGED notNote

\* one pass of the loop over melody, e.g. lines 701-715, and the return
ScheduleNote ==
    /\ m_pc = "melody"
    /\ m_events' = m_events \cup MelodyEvents(NoteTheme.style, m_i)
    /\ IF m_i + 1 < Len(NoteTheme.melody_notes)
       THEN m_i' = m_i + 1 /\ m_pc' = "melody"
       ELSE m_i' = m_i + 1 /\ m_pc' = "done"
    /\ UNCHANGED <<m_emotion, m_min8>>
    /\ UNCHANGED notNote

NextNote == ScheduleChord \/ ScheduleNote

\* the initial states: a piece about to be composed, the rest at rest
StartNote ==
    InitNote /\ IdleEarly /\ IdleOrder /\ IdleClip /\ IdleFrame /\ IdleCache
    /\ IdleFlow

SpecNote == StartNote /\ [][NextNote]_vars

(***************************************************************************)
(* /analyze requests served on concurrent threads (app.py line 346): each  *)
(* clears MARKED_PHOTOS_FOLDER file by file, checks its inputs, then its   *)
(* run writes marked_<photo> for the photos that match and returns their   *)
(* list.  All requests work on the same uploaded photos and the same       *)
(* folder, and the steps of one request interleave with those of another.  *)
(***************************************************************************)
MaxServerPhotos == 2

\* the requests in flight
Requests == 1..2

\* the photos of PHOTOS_FOLDER
ServerPhotos == 1..MaxServerPhotos

\* what a request finds in REFERENCE_FOLDER and PHOTOS_FOLDER
InputStates == {"ok", "no_references", "no_photos"}

InitServer ==
    /\ h_pc = [r \in Requests |-> "arriving"]
    /\ h_inputs \in [Requests -> InputStates]
    /\ h_todo = [r \in Requests |-> {}]
    /\ h_next = [r \in Requests |-> 1]
    /\ h_marked = [r \in Requests |-> {}]
    /\ h_folder = [p \in ServerPhotos |-> 0]

\* app.py lines 107-113: the 400 answers when a folder of inputs is empty
InputCheck(inputs) == IF inputs = "ok" THEN "running" ELSE "rejected"

\* app.py lines 105 and 208-211: clear_data(MARKED_PHOTOS_FOLDER) begins,
\* os.listdir names the files that are there
ClearMarked(r) ==
    /\ h_pc[r] = "arriving"
    /\ h_todo' = [h_todo EXCEPT ![r] = {p \in ServerPhotos : h_folder[p] # 0}]
    /\ h_pc' = [h_pc EXCEPT ![r] = "clearing"]
    /\ UNCHANGED <<h_inputs, h_next, h_marked, h_folder>>
    /\ UNCHANGED notServer

\* app.py lines 211-218: the next listed file is unlinked, whichever
\* request wrote the file that is at its path now; the error of an unlink
\* that fails is logged and the loop goes on
UnlinkMarked(r) ==
    /\ h_pc[r] = "clearing"
    /\ \E p \in h_todo[r], deleted \in BOOLEAN :
          /\ h_folder' = IF deleted THEN [h_folder EXCEPT ![p] = 0]
                                    ELSE h_folder
          /\ h_todo' = [h_todo EXCEPT ![r] = @ \ {p}]
    /\ UNCHANGED <<h_pc, h_inputs, h_next, h_marked>>
    /\ UNCHANGED notServer

\* app.py lines 107-113: after clear_data the reference folder and the
\* photos folder are checked
CheckInputs(r) ==
    /\ h_pc[r] = "clearing"
    /\ h_todo[r] = {}
    /\ h_pc' = [h_pc EXCEPT ![r] = InputCheck(h_inputs[r])]
    /\ UNCHANGED <<h_inputs, h_todo, h_next, h_marked, h_folder>>
    /\ UNCHANGED notServer

\* what lines 308-313 do with one photo of the run: no marked image (or the
\* task raised); imwrite writes the file and the path is appended; imwrite
\* returns False, nothing is written and the path is appended all the same;
\* imwrite raises and line 316 goes on with the next photo
MarkOutcomes == {"no_match", "written", "not_written", "write_raises"}

\* lines 306-318 for one photo of the run; marked_files is the run's own list
MarkPhoto(r) ==
    /\ h_pc[r] = "running"
    /\ h_next[r] <= MaxServerPhotos
    /\ \E mark \in MarkOutcomes :
          /\ h_folder' = IF mark = "written"
                         THEN [h_folder EXCEPT ![h_next[r]] = r]
                         ELSE h_folder
          /\ h_marked' = IF mark \in {"written", "not_written"}
                         THEN [h_marked EXCEPT ![r] = @ \cup {h_next[r]}]
                         ELSE h_marked
    /\ h_next' = [h_next EXCEPT ![r] = @ + 1]
    /\ UNCHANGED <<h_pc, h_inputs, h_todo>>
    /\ UNCHANGED notServer

\* line 323 and app.py lines 129-139: the run returns and the response goes
AnalyzeReturns(r) ==
    /\ h_pc[r] = "running"
    /\ h_next[r] > MaxServerPhotos
    /\ h_pc' = [h_pc EXCEPT ![r] = "responded"]
    /\ UNCHANGED <<h_inputs, h_todo, h_next, h_marked, h_folder>>
    /\ UNCHANGED notServer

\* the same client asks again
AnalyzeAgain(r) ==
    /\ h_pc[r] \in {"responded", "rejected"}
    /\ h_pc' = [h_pc EXCEPT ![r] = "arriving"]
    /\ h_next' = [h_next EXCEPT ![r] = 1]
    /\ h_marked' = [h_marked EXCEPT ![r] = {}]
    /\ \E inputs \in InputStates : h_inputs' = [h_inputs EXCEPT ![r] = inputs]
    /\ UNCHANGED <<h_todo, h_folder>>
    /\ UNCHANGED notServer

NextServer ==
    \E r \in Requests :
        \/ ClearMarked(r)
        \/ UnlinkMarked(r)
        \/ CheckInputs(r)
        \/ MarkPhoto(r)
        \/ AnalyzeReturns(r)
        \/ AnalyzeAgain(r)

\* the initial states: two requests arrive, the other parts at rest
StartServer ==
    InitServer /\ IdleMatch /\ IdleSched /\ IdleAgg /\ IdleComp /\ IdleAudio
    /\ IdleNorm /\ IdleVideo /\ IdleLate

SpecServer == StartServer /\ [][NextServer]_vars

(***************************************************************************)
(* Properties.                                                             *)
(***************************************************************************)

\* the reference images the current region has matched so far
CountedCalls == Cardinality({i \in DOMAIN calls : calls[i].counted})

\* C1: once the decision of line 202 is taken for a region, the region is
\* treated as verified exactly when the number of reference images it
\* matched is at least min(required_matches, n): at least n when n < k, at
\* least k when n >= k; only a verified region is annotated.
C1_VerifiedIffMinMatches ==
    region_decided =>
        /\ match_count = CountedCalls
        /\ n_refs < required_matches =>
             (region_verified <=> match_count >= n_refs)
        /\ n_refs >= required_matches =>
             (region_verified <=> match_count >= required_matches)
        /\ region_annotated => region_verified

\* a region verified and annotated with fewer references than required_matches
C1_Witness ==
    /\ region_decided
    /\ region_verified
    /\ region_annotated
    /\ n_refs < required_matches
    /\ match_count = n_refs

\* C2 as claimed: a pair whose verification call returned counts as a match
\* exactly when the returned distance is at most the threshold, whatever
\* else the backend answered.
C2_VoteIffDistance ==
    \A i \in DOMAIN calls :
        ~calls[i].raised =>
            (calls[i].counted <=> calls[i].distance <= threshold)

\* C2 as amended: a pair whose verification call returned counts as a match
\* exactly when the backend's own verified flag is true and the returned
\* distance is at most the threshold.
C2_VoteIffVerifiedAndDistance ==
    \A i \in DOMAIN calls :
        ~calls[i].raised =>
            (calls[i].counted <=>
                (calls[i].verified /\ calls[i].distance <= threshold))

\* one pair within the threshold that the backend's flag rejects, one counted
C2_Witness ==
    /\ \E i \in DOMAIN calls :
        /\ ~calls[i].raised
        /\ ~calls[i].verified
        /\ calls[i].distance <= threshold
        /\ ~calls[i].counted
    /\ \E i \in DOMAIN calls :
        /\ ~calls[i].raised
        /\ calls[i].verified
        /\ calls[i].distance <= threshold
        /\ calls[i].counted

\* C3: with an empty reference set the run never gets past the reference
\* check: no task is submitted to the pool, no marked photo is written and
\* the run ends with the error.
C3_EmptyReferenceSetFailsFirst ==
    s_nrefs = 0 =>
        /\ spc \in {"start", "error"}
        /\ \A p \in Photos : task[p] = "new" /\ outcome[p] = "none"
        /\ futures = <<>>
        /\ marked_files = <<>>
        /\ sleeps = 0

\* a run with photos to process that failed on the empty reference set
C3_Witness ==
    /\ s_nrefs = 0
    /\ n_photos > 0
    /\ spc = "error"

\* C4 as claimed: a task that failed or timed out is not in the output, and
\* a wait expires only for a task whose own execution exceeded the timeout:
\* no task is kept from running to completion, and from being collected,
\* by the failure of its siblings.
C4_Isolation ==
    /\ [](\A i \in DOMAIN marked_files :
            outcome[marked_files[i]] = "marked")
    /\ [][\A p \in Photos :
            (outcome[p] = "none" /\ outcome'[p] = "timeout")
                => task[p] = "slow"]_vars

\* C5: a task of a later batch is on the executor only after every task of
\* every earlier batch was settled by the collection loop (collected,
\* failed or timed out) and one pacing delay per earlier batch has elapsed.
C5_BatchBarrier ==
    \A p \in Photos :
        task[p] # "new" =>
            /\ sleeps >= BatchOf(p)
            /\ \A q \in Photos :
                  BatchOf(q) < BatchOf(p) => outcome[q] # "none"

\* the second batch is submitted after a task of the first batch timed out
\* and another one failed
C5_Witness ==
    \E p, q, r \in Photos :
        /\ BatchOf(p) = 1
        /\ task[p] # "new"
        /\ BatchOf(q) = 0
        /\ outcome[q] = "timeout"
        /\ BatchOf(r) = 0
        /\ outcome[r] = "error"

RECURSIVE SumCounts(_, _)
SumCounts(counts, keys) ==
    IF keys = {} THEN 0
    ELSE LET e == CHOOSE x \in keys : TRUE
         IN  counts[e] + SumCounts(counts, keys \ {e})

\* C6 as claimed: every photo the aggregator has gone through contributed
\* exactly one vote, so the counts sum to the number of photos.
C6_TallyInvariant ==
    /\ SumCounts(emotion_counts, DOMAIN emotion_counts) = a_seen
    /\ a_pc = "returned" =>
         SumCounts(emotion_counts, DOMAIN emotion_counts) = a_total

\* the first label of self.emotions (line 21) that has the largest count
FirstMaxInVocabularyOrder(counts) ==
    LET best == CHOOSE i \in DOMAIN Emotions :
                  /\ \A j \in DOMAIN Emotions :
                        counts[Emotions[j]] <= counts[Emotions[i]]
                  /\ \A j \in DOMAIN Emotions :
                        counts[Emotions[j]] = counts[Emotions[i]] => i <= j
    IN  Emotions[best]

\* C7 as claimed: for a tally in which every photo of a non-empty list
\* voted, the returned dominant emotion has the largest count and, among
\* the labels tied for it, comes first in the vocabulary order
\* angry, disgust, fear, happy, sad, surprise, neutral.
C7_DominantByVocabularyOrder ==
    (/\ a_pc = "returned"
     /\ a_total > 0
     /\ SumCounts(emotion_counts, DOMAIN emotion_counts) = a_total) =>
        a_dominant = FirstMaxInVocabularyOrder(emotion_counts)

\* C8 as claimed: for an empty list the tally is all zero and the dominant
\* emotion is neutral.
C8_EmptyIsNeutral ==
    a_pc = "returned" /\ a_total = 0 =>
        /\ \A e \in DOMAIN emotion_counts : emotion_counts[e] = 0
        /\ a_dominant = "neutral"

\* C9: the waveform has int(max(d, 30) * 44100) samples: 30 s worth when the
\* requested duration is at most 30 s, the truncated d * 44100 above, and
\* never fewer than 30 s worth.
C9_DurationFloor ==
    c_pc # "start" =>
        /\ c_samples >= FloorSeconds * SampleRate
        /\ c_duration <= FloorSeconds * 8 =>
             c_samples = FloorSeconds * SampleRate
        /\ c_duration >= FloorSeconds * 8 =>
             /\ c_samples * 8 <= c_duration * SampleRate
             /\ c_duration * SampleRate < (c_samples + 1) * 8

\* a composition asked for 5 s that got 30 s worth of samples
C9_Witness ==
    /\ c_pc = "composed"
    /\ c_duration = 5 * 8
    /\ c_samples = 30 * 44100

\* the seven labels of the vocabulary
IsVocabularyLabel(e) == \E i \in DOMAIN Emotions : Emotions[i] = e

\* C10: whatever the label, a theme of the table is selected and the piece
\* is composed; a label outside the seven selects exactly the neutral theme
\* and with it the ambient layer.
C10_UnknownLabelIsNeutral ==
    c_pc \in {"themed", "composed"} =>
        /\ \E e \in DOMAIN EmotionThemes : c_theme = EmotionThemes[e]
        /\ IsVocabularyLabel(c_emotion) => c_theme = EmotionThemes[c_emotion]
        /\ ~IsVocabularyLabel(c_emotion) =>
             /\ c_theme = EmotionThemes["neutral"]
             /\ c_pc = "composed" => c_layer = "_create_ambient_layer"

\* a composition for a label outside the vocabulary
C10_Witness ==
    /\ c_pc = "composed"
    /\ c_emotion = "contempt"
    /\ c_theme.style = "ambient_peaceful"
    /\ c_layer = "_create_ambient_layer"

\* C11: a composition made for the same label and the same duration as the
\* first one of the process has the same sample count and the same
\* waveform, that is the same waves added to a new array in the same order
\* by the same layer function from the same theme entry, whatever calls and
\* folder changes lie in between.
C11_SameInputsSameComposition ==
    (/\ c_pc \in {"composed", "returned"}
     /\ c_first # NoComposition
     /\ c_emotion = c_first.emotion
     /\ c_duration = c_first.duration) =>
        /\ c_samples = c_first.samples
        /\ c_theme = c_first.theme
        /\ c_layer = c_first.layer
        /\ c_audio = c_first.audio

\* a third composition equal in label and duration to the first, returned
\* with every wave of its chords and its notes added, after a composition
\* for another label and while the folder holds photos of another dominant
\* emotion
C11_Witness ==
    /\ c_pc = "returned"
    /\ c_runs = 3
    /\ c_emotion = c_first.emotion
    /\ c_duration = c_first.duration
    /\ FolderEmotion(fs_marked) # c_emotion
    /\ Len(c_audio) = Len(c_theme.chord_progression) + Len(c_theme.melody_notes)
    /\ c_audio = c_first.audio

\* C12: for a waveform that is not identically zero the peak of the
\* normalised samples is exactly 0.8, and every 16-bit sample is at most
\* 0.8 * 32767 in absolute value, hence inside the int16 range, the peak
\* sample being int(0.8 * 32767) = 26213.
C12_PeakIsHeadroom ==
    (w_pc \in {"normalized", "quantized"} /\ PeakOf(w_audio) > 0) =>
        /\ 10 * PeakOf(w_norm) = 8 * w_den
        /\ w_pc = "quantized" =>
             /\ \A i \in DOMAIN w_int16 :
                    /\ 10 * Abs(w_int16[i]) <= 8 * FullScale
                    /\ -32768 <= w_int16[i] /\ w_int16[i] <= 32767
             /\ PeakOf(w_int16) = (8 * FullScale) \div 10

\* a quantised waveform with peak 3 at a negative sample and a smaller one
C12_Witness ==
    /\ w_pc = "quantized"
    /\ w_audio = <<1, -3>>
    /\ w_int16 = <<8737, -26213>>

\* C13 as claimed: whenever the soundtrack fails after the silent video was
\* produced, the output is the silent video and success is reported.
C13_MuxFailureIsSilentSuccess ==
    (v_pc \in {"created", "responded"} /\ v_mux_fail # "none") =>
        /\ v_output = "silent"
        /\ v_success = "true"

\* C13 as amended: whenever the soundtrack fails after the silent video was
\* produced, the silent video is copied to the output path; when that copy
\* returns, the output is the silent video; success is reported exactly
\* when the copy returns and the removal of the temporary file raises
\* nothing; failure is reported otherwise, and the response follows it.
C13_MuxFailureFallsBackToCopy ==
    (v_pc \in {"created", "responded"} /\ v_mux_fail # "none") =>
        /\ v_copy = "ok" => v_output = "silent"
        /\ v_success = "true" <=> (v_copy = "ok" /\ v_cleanup = "ok")
        /\ v_success \in {"true", "false"}
        /\ v_pc = "responded" =>
              v_status = (IF v_copy = "ok" /\ v_cleanup = "ok"
                          THEN 200 ELSE 500)

\* a request answered 200 with the silent video after writing the muxed
\* file raised
C13_Witness ==
    /\ v_pc = "responded"
    /\ v_mux_fail = "write"
    /\ v_copy = "ok"
    /\ v_cleanup = "ok"
    /\ v_output = "silent"
    /\ v_status = 200

\* C14: when the silent video cannot be produced, create_video_from_photos
\* returns False, this request writes no output video and the response is
\* an error.
C14_BaseFailureIsFatal ==
    (v_pc \in {"created", "responded"} /\ v_base_fail # "none") =>
        /\ v_success = "false"
        /\ v_output \in {"absent", "stale"}
        /\ v_mux_fail = "none"
        /\ v_pc = "responded" => v_status = 500

\* a request answered 500 after the video writer could not be opened
C14_Witness ==
    /\ v_pc = "responded"
    /\ v_base_fail = "writer"
    /\ v_output = "absent"
    /\ v_status = 500

\* C15: a DeepFace.verify call that raised is not counted and changes
\* nothing else: every call of the region that returned is counted by its
\* own answer, the reference loop ends before the last reference image only
\* by the short-circuit of line 196, every region of the photo that is not
\* empty after clipping (lines 173-174) is decided before the function
\* returns, and it returns an image or None.
C15_FailedCallIsOneNonMatch ==
    /\ \A i \in DOMAIN calls :
          /\ calls[i].raised => ~calls[i].counted
          /\ ~calls[i].raised =>
                (calls[i].counted <=>
                    (calls[i].verified /\ calls[i].distance <= threshold))
    /\ match_count = CountedCalls
    /\ (mpc = "decide" /\ Len(calls) < n_refs) =>
          (calls[Len(calls)].counted /\ match_count >= required_matches)
    /\ mpc = "returned" =>
          /\ decided_regions + discarded_regions = n_faces
          /\ photo_ret \in {"none", "marked"}

\* a photo of two regions returned as marked, its last region annotated on
\* two references after the call for the first reference raised
C15_Witness ==
    /\ mpc = "returned"
    /\ photo_ret = "marked"
    /\ n_faces = 2
    /\ verify_errors >= 2
    /\ Len(calls) = 3
    /\ calls[1].raised
    /\ calls[2].counted
    /\ calls[3].counted
    /\ region_annotated

\* C20 as claimed: the confidence attached to an annotated region lies
\* between 0 and 100 percent, whatever the threshold and the distances.
C20_ConfidenceInRange ==
    region_annotated =>
        (0 <= confidence_score /\ confidence_score <= 100)

\* the photos whose marked file is in the returned list
MarkedSet == {marked_files[i] : i \in DOMAIN marked_files}

\* C16: a photo is in the output only if its task returned an image, which
\* lines 255-257 do only when a region was annotated; a photo whose task
\* returned None is settled without a file and without an error, and when
\* the run returns every photo has been settled.
C16_OnlyAnnotatedPhotosInOutput ==
    /\ \A p \in MarkedSet :
          task[p] = "done_marked" /\ outcome[p] = "marked"
    /\ \A p \in Photos :
          /\ outcome[p] = "marked" => p \in MarkedSet
          /\ outcome[p] = "nomatch" => task[p] = "done_none"
          /\ task[p] = "done_none" =>
                (p \notin MarkedSet /\ outcome[p] # "error")
    /\ spc = "returned" => \A p \in Photos : outcome[p] # "none"

\* a finished run of three photos: the first without an annotated region,
\* the two after it in the output
C16_Witness ==
    /\ spc = "returned"
    /\ n_photos = 3
    /\ outcome[1] = "nomatch"
    /\ marked_files = <<2, 3>>

\* C17 as claimed: the photos a batch appended to the output are in
\* ascending order of their file names.
C17_BatchOutputSorted ==
    \A i, j \in DOMAIN marked_files :
        (i < j /\ BatchOf(marked_files[i]) = BatchOf(marked_files[j])) =>
            photo_files[marked_files[i]] < photo_files[marked_files[j]]

\* a step of the collection loop that settles a photo as failed
RecoverableErrorStep ==
    \E p \in Photos :
        /\ outcome[p] = "none"
        /\ outcome'[p] \in {"timeout", "error"}

\* C18 as claimed: every recoverable error reaches the caller, that is the
\* step that recovers from it changes what the run returns.
C18_EveryErrorReachesTheCaller ==
    [][RecoverableErrorStep => marked_files' # marked_files]_vars

\* C19 as claimed: while a run is in progress no step removes a marked
\* file it has written, and at the step with which a run returns the folder
\* holds exactly the marked files of the photos in its list, each written
\* by that run.
C19_RunOwnsItsArtifacts ==
    /\ [][\A r \in Requests :
            (h_pc[r] = "running" /\ h_pc'[r] = "running") =>
                \A p \in h_marked[r] : h_folder[p] # 0 => h_folder'[p] # 0]_vars
    /\ [][\A r \in Requests :
            (h_pc[r] = "running" /\ h_pc'[r] = "responded") =>
                \A p \in ServerPhotos :
                    /\ p \in h_marked'[r] <=> h_folder'[p] # 0
                    /\ h_folder'[p] \in {0, r}]_vars

\* the reference images whose answer is a vote at the threshold of app.py
Voters == {i \in DOMAIN o_answers :
             ~o_answers[i].raised /\ Vote(o_answers[i], AppThreshold)}

\* C21: with the answer of every pair fixed, the loop in the listed order
\* and the loop in any other order take the same decision at line 202, and
\* either loop that leaves references uncompared has just reached
\* required_matches, with no comparison made after that.
C21_OrderAffectsOnlyLatency ==
    o_pc = "both" =>
        LET n == Len(o_answers) IN
        /\ RegionVerified(o_listed.match_count, o_k, n)
             <=> RegionVerified(o_permuted.match_count, o_k, n)
        /\ \A r \in {o_listed, o_permuted} :
              /\ r.match_count <= o_k
              /\ r.compared < n => r.match_count = o_k
              /\ Cardinality(Voters) >= o_k => r.match_count = o_k
              /\ Cardinality(Voters) < o_k =>
                    (r.compared = n /\ r.match_count = Cardinality(Voters))

\* three references of which the last two vote, required_matches 2: the
\* listed order compares all three, the reversed order only two
C21_Witness ==
    /\ o_pc = "both"
    /\ Len(o_answers) = 3
    /\ o_k = 2
    /\ Voters = {2, 3}
    /\ o_perm = <<3, 2, 1>>
    /\ o_listed.compared = 3
    /\ o_permuted.compared = 2

\* the smallest distance among the reference images that vote
MinVoterDistance ==
    IF Voters = {} THEN DistInf
    ELSE LET i == CHOOSE i \in Voters :
                    \A j \in Voters :
                        o_answers[i].distance <= o_answers[j].distance
         IN  o_answers[i].distance

\* C22 as claimed: the best_distance of a region is the smallest distance
\* among all the reference images that match it, in whatever order they
\* are compared.
C22_BestDistanceOverAllReferences ==
    o_pc = "both" =>
        /\ o_listed.best_distance = MinVoterDistance
        /\ o_permuted.best_distance = MinVoterDistance

\* C23 as claimed: the region is used exactly when the detected box meets
\* the image, and the region used is the intersection of the two.
C23_RegionIsIntersection ==
    k_pc = "clipped" =>
        LET ix1 == Max(0, k_box.x1)
            iy1 == Max(0, k_box.y1)
            ix2 == Min(k_shape.width, k_box.x2)
            iy2 == Min(k_shape.height, k_box.y2)
        IN  /\ k_used <=> (ix1 < ix2 /\ iy1 < iy2)
            /\ k_used => k_region = [x |-> ix1, y |-> iy1,
                                      w |-> ix2 - ix1, h |-> iy2 - iy1]

\* C24 as claimed: when every image file could be read, the video holds
\* len(image_files) * round(fps * 3) frames, whatever the fps.
C24_RoundedHold ==
    (f_pc = "released" /\ f_skipped = 0) =>
        f_written = f_n * PyRoundHalves(f_fps2 * SecondsPerImage)

\* C25 as claimed: the faces a call of _detect_faces hands to the matching
\* are those of the file stored at the path when it is called; an answer
\* from the cache is neither that of an earlier version of the file nor the
\* empty result of an earlier failure.
C25_FacesOfCurrentContent ==
    d_last.hit =>
        /\ d_last.faces # NoFaces
        /\ d_last.faces = FacesOf(d_last.content)

\* the tasks the executor holds that have not finished executing
Unfinished == {p \in Photos : task[p] \in {"queued", "running", "slow"}}

\* C26 as claimed: at most BatchSize submitted tasks are unfinished at any
\* moment, and no task of an earlier batch is unfinished once a task of a
\* later batch has been submitted.
C26_OneBatchInFlight ==
    /\ Cardinality(Unfinished) <= BatchSize
    /\ \A p, q \in Photos :
          (BatchOf(q) < BatchOf(p) /\ task[p] # "new") => q \notin Unfinished

\* C27 as claimed: no step of an /analyze request whose inputs are missing,
\* from its arrival to its rejection, changes the marked-photos folder.
C27_RejectionKeepsMarkedPhotos ==
    [][\A r \in Requests :
          (/\ h_inputs[r] # "ok"
           /\ h_pc[r] \in {"arriving", "clearing"}
           /\ (h_pc'[r] # h_pc[r] \/ h_todo'[r] # h_todo[r])) =>
              h_folder' = h_folder]_vars

\* C28 as claimed: the key a marked photo is counted under is a label that
\* was drawn on one of its verified regions.
C28_VoteIsTheAnnotation ==
    p_pc = "tallied" =>
        \E i \in DOMAIN p_annotated : p_vote = p_annotated[i]

\* an interval of the schedule ends before the waveform does: its stop, in
\* seconds stop * 60 / (BeatUnit * tempo), is below m_min8 / 8
EndsEarly(e) == e.stop * 60 * 8 < m_min8 * BeatUnit * NoteTheme.tempo

\* an interval sounds at the last instant of the waveform
SoundsAtEnd(e) == ~e.gated \/ ~EndsEarly(e)

\* C29: in a time-gated style the progression and the melody are passed
\* once from t = 0 (every chord and every melody note has its one place in
\* the schedule, chord i inside its own slot) and everything has ended
\* before the waveform does; in the two other styles a pad sounds to the end.
C29_SinglePassThenSilence ==
    m_pc = "done" =>
        IF NoteTheme.style \in GatedStyles
        THEN /\ \A i \in 0..3 : \E e \in m_events :
                  e.part = "chord" /\ e.index = i
             /\ \A i \in 0..4 :
                  Cardinality({e \in m_events :
                                 e.part = "melody" /\ e.index = i}) = 1
             /\ \A e, f \in m_events :
                  (e.part = f.part /\ e.index = f.index
                   /\ e.strike = f.strike) => e = f
             /\ \A e \in m_events :
                  e.part = "chord" =>
                      /\ e.start >= e.index * ChordStride(NoteTheme.style)
                      /\ e.start < (e.index + 1) * ChordStride(NoteTheme.style)
             /\ \E e \in m_events : e.part = "chord" /\ e.start = 0
             /\ \E e \in m_events : e.part = "melody" /\ e.start = 0
             /\ \A e \in m_events : ~SoundsAtEnd(e)
        ELSE \E e \in m_events : SoundsAtEnd(e)

\* a piano ballad of 30 seconds whose last arpeggio note ended at 17 beats
C29_Witness ==
    /\ m_pc = "done"
    /\ NoteTheme.style = "piano_ballad"
    /\ m_min8 = FloorSeconds * 8
    /\ \E e \in m_events : e.stop = 17 * BeatUnit
    /\ \A e \in m_events : e.stop <= 17 * BeatUnit

\* C30: every call of mark_reference_faces_in_photos comes to its end, by
\* the return of line 323 or by the exception of the input check, whatever
\* the slow tasks do, and every batch that is being collected is left, the
\* first one and the one submitted after it.
C30_CallTerminates ==
    /\ <>(spc \in {"returned", "error"})
    /\ (spc = "collect") ~> (spc = "sleep")

\* the call has returned after its second batch while the four workers are
\* still held by slow tasks of the first batch; the fifth task of the first
\* batch and the task of the second batch, never started, wait in the
\* executor's queue, and the wait for each of them expired
C30_Witness ==
    /\ spc = "returned"
    /\ sleeps = 2
    /\ Cardinality({p \in 1..BatchSize : task[p] = "slow"}) = PoolSize
    /\ \E p \in 1..BatchSize : task[p] = "queued" /\ outcome[p] = "timeout"
    /\ task[BatchSize + 1] = "queued"
    /\ outcome[BatchSize + 1] = "timeout"

====
